---- MODULE Spec2Model ----
(***************************************************************************)
(* Mood inference and validation pipeline of the AI journal app:           *)
(*   utils/emotion_validator.py  (lexicon, rule-based re-detection,        *)
(*                                validate_and_fix)                        *)
(*   utils/mood_analyzer.py      (MoodAnalyzer.analyze_entry and its       *)
(*                                rule-based fallback)                     *)
(*   utils/journal_manager.py    (create_entry, update_entry, delete_entry *)
(*                                over the tables of database/models.py)   *)
(*                                                                         *)
(* Numbers are exact decimals in fixed point: 1.0 is 100000, so 0.01 is    *)
(* 1000 and 0.0001 is 10.  A text is a sequence of whitespace-separated    *)
(* raw words; a raw word is a sequence of segments, each either a run of   *)
(* word characters (\w+) or one punctuation character.                     *)
(***************************************************************************)
EXTENDS Integers, Sequences, FiniteSets, TLC

VARIABLES text, pc, outcome, raw, mood, mood2, redetected,
          requests, entries, moods, prompts, call

\* text       the entry text of the current (or last) call
\* pc         how far the call got, or how it ended
\* outcome    what the HTTP call to the model service did
\* raw        the dict returned by analyze_entry (the candidate)
\* mood       the dict returned by validate_and_fix
\* mood2      validate_and_fix applied to mood again
\* redetected mood's values came from _detect_emotion_from_text
\* requests   number of POSTs the call sent to the model service
\* entries    table journal_entries: id -> row
\* moods      table mood_analyses: rows in order of insertion
\* prompts    whether the tables exist, and the rows of reflection_prompts
\* call       the journal operation in progress or last run
callVars == <<text, pc, outcome, raw, mood, mood2, redetected, requests>>

dbVars == <<entries, moods, prompts, call>>

vars == <<text, pc, outcome, raw, mood, mood2, redetected,
          requests, entries, moods, prompts, call>>

----------------------------------------------------------------------------
(* Generic helpers standing for Python built-ins.                          *)

Min(a, b) == IF a <= b THEN a ELSE b
Max(a, b) == IF a >= b THEN a ELSE b
Abs(a) == IF a < 0 THEN -a ELSE a

\* round(x, ndigits): nearest multiple of q, ties to the even multiple.
RoundTo(x, q) ==
    LET lo == (x \div q) * q
        r  == x - lo
    IN  IF 2 * r < q THEN lo
        ELSE IF 2 * r > q THEN lo + q
        ELSE IF (lo \div q) % 2 = 0 THEN lo ELSE lo + q

\* dict.get(key, default)
Get(d, k, default) == IF k \in DOMAIN d THEN d[k] ELSE default

Range(s) == {s[i] : i \in DOMAIN s}

RECURSIVE Concat(_)
Concat(ss) == IF ss = <<>> THEN <<>> ELSE Head(ss) \o Concat(Tail(ss))

\* Order-preserving removal of repeated elements.
RECURSIVE Dedupe(_, _)
Dedupe(s, seen) ==
    IF s = <<>> THEN <<>>
    ELSE IF Head(s) \in seen THEN Dedupe(Tail(s), seen)
    ELSE <<Head(s)>> \o Dedupe(Tail(s), seen \cup {Head(s)})

Take(s, n) == SubSeq(s, 1, Min(n, Len(s)))

\* FirstMax returning the last key with the largest f instead of the first.
LastMax(keys, f) ==
    LET best == CHOOSE i \in DOMAIN keys :
                  /\ \A j \in DOMAIN keys : f[keys[j]] <= f[keys[i]]
                  /\ \A j \in DOMAIN keys : f[keys[j]] = f[keys[i]] => j <= i
    IN  keys[best]

\* max(keys, key = f): the first key, in iteration order, with the largest f.
FirstMax(keys, f) ==
    LET best == CHOOSE i \in DOMAIN keys :
                  /\ \A j \in DOMAIN keys : f[keys[j]] <= f[keys[i]]
                  /\ \A j \in DOMAIN keys : f[keys[j]] = f[keys[i]] => i <= j
    IN  keys[best]

----------------------------------------------------------------------------
(* Characters and case.                                                    *)

\* Punctuation characters: everything [^\w\s] stands for in the texts used.
PunctChars == {".", ",", "!", "?", ";", ":", "'", "\"", "-", "(", ")"}

\* The characters str.strip('.,!?;:\'"') removes in the analyzer's fallback.
StripChars == {".", ",", "!", "?", ";", ":", "'", "\""}

\* str.lower() on the segments that carry an upper-case letter.
UpperToLower ==
    ("I" :> "i") @@ ("It" :> "it") @@ ("Today" :> "today") @@
    ("Nothing" :> "nothing") @@ ("Happy" :> "happy") @@ ("Calm" :> "calm") @@
    ("Sad" :> "sad") @@ ("Angry" :> "angry") @@ ("Neutral" :> "neutral")

Lower(s) == IF s \in DOMAIN UpperToLower THEN UpperToLower[s] ELSE s

\* Word-character runs that are not purely alphabetic (str.isalpha() is False).
NonAlphaTokens == {"day_1", "10am"}

IsAlpha(t) == t # "" /\ t \notin NonAlphaTokens /\ t \notin PunctChars

----------------------------------------------------------------------------
(* emotion_validator.py: lexicon and score ranges.                         *)

EmotionOrder == <<"happy", "sad", "anxious", "calm", "angry", "neutral">>

\* The keys other than "neutral", in the same order.
PrimaryOrder == SelectSeq(EmotionOrder, LAMBDA e : e # "neutral")

EMOTION_KEYWORDS ==
    [happy |->
       <<"happy", "joy", "joyful", "excited", "excitement", "proud", "pride",
         "wonderful", "amazing", "fantastic", "great", "excellent", "awesome",
         "brilliant", "delighted", "delight", "grateful", "gratitude", "blessed",
         "thrilled", "elated", "cheerful", "content", "pleased", "glad",
         "celebrating", "celebrate", "achievement", "accomplished", "success",
         "love", "loved", "loving", "beautiful", "incredible", "euphoric">>,
     sad |->
       <<"sad", "sadness", "unhappy", "down", "depressed", "depression",
         "disappointed", "disappointment", "miserable", "misery", "grief",
         "grieving", "heartbroken", "devastated", "devastation", "hopeless",
         "hopelessness", "crying", "cried", "tears", "lonely", "loneliness",
         "loss", "lost", "empty", "emptiness", "heavy", "hurt", "pain",
         "rejected", "rejection", "failure", "failed", "worthless", "helpless",
         "gloomy", "melancholy", "sorrow", "sorrowful", "suffering", "suffer",
         "ache", "aching", "miss", "missing", "missed">>,
     anxious |->
       <<"anxious", "anxiety", "worried", "worry", "worrying", "stress",
         "stressed", "stressful", "nervous", "nervousness", "overwhelmed",
         "overwhelming", "panic", "panicking", "scared", "fear", "fearful",
         "afraid", "dread", "dreading", "tense", "tension", "uneasy",
         "unease", "restless", "restlessness", "uncertain", "uncertainty",
         "overthinking", "racing", "overthink">>,
     calm |->
       <<"calm", "peaceful", "peace", "relaxed", "relaxing", "relax",
         "serene", "serenity", "tranquil", "tranquility", "content",
         "contentment", "comfortable", "patient", "patience", "grounded",
         "present", "mindful", "mindfulness", "gentle", "stillness", "still",
         "quiet", "steady", "slow", "breathe", "breathing", "meditate",
         "meditation", "balanced", "harmony", "ease">>,
     angry |->
       <<"angry", "anger", "furious", "fury", "rage", "raging", "mad",
         "frustrated", "frustration", "irritated", "irritation", "annoyed",
         "annoyance", "outraged", "outrage", "infuriated", "livid", "fuming",
         "resentful", "resentment", "bitter", "bitterness", "hostile",
         "hatred", "hate", "disgusted", "disgust">>,
     neutral |->
       <<"okay", "fine", "alright", "regular", "normal", "usual", "average",
         "ordinary", "standard", "typical", "moderate", "so-so">>]

\* (min, max) per emotion, in fixed point.
EMOTION_SCORE_RANGES ==
    [happy   |-> <<20000, 100000>>,
     calm    |-> <<10000, 60000>>,
     neutral |-> <<-15000, 15000>>,
     anxious |-> <<-80000, -10000>>,
     sad     |-> <<-90000, -20000>>,
     angry   |-> <<-90000, -30000>>]

----------------------------------------------------------------------------
(* emotion_validator.py: tokenizer, match counts, re-detection, keywords.  *)

\* One raw word: lower-case it, turn every punctuation character into a
\* space, split.
WordTokens(w) ==
    SelectSeq([i \in DOMAIN w |-> Lower(w[i])], LAMBDA s : s \notin PunctChars)

_tokenize(txt) == Concat([i \in DOMAIN txt |-> WordTokens(txt[i])])

\* sum(1 for kw in keywords if kw in token_set)
CountMatches(keywords, token_set) ==
    Cardinality({i \in DOMAIN keywords : keywords[i] \in token_set})

CountsOver(token_set) ==
    [e \in DOMAIN EMOTION_KEYWORDS |-> CountMatches(EMOTION_KEYWORDS[e], token_set)]

\* _count_emotion_matches counting every occurrence of a keyword in the text.
_count_emotion_matchesPerOccurrence(tokens) ==
    [e \in DOMAIN EMOTION_KEYWORDS |->
       Cardinality({i \in DOMAIN tokens : tokens[i] \in Range(EMOTION_KEYWORDS[e])})]

_count_emotion_matches(tokens) == CountsOver(Range(tokens))

\* DetectFromCounts with confidence 0.55 + 0.10 per match in place of 0.08.
DetectFromCountsStep10(counts) ==
    LET total == counts["happy"] + counts["sad"] + counts["anxious"]
                 + counts["calm"] + counts["angry"]
    IN  IF total = 0
        THEN [emotion |-> "neutral", score |-> 0, confidence |-> 50000]
        ELSE LET dominant == FirstMax(PrimaryOrder, counts)
                 match_count == counts[dominant]
                 score_min == EMOTION_SCORE_RANGES[dominant][1]
                 score_max == EMOTION_SCORE_RANGES[dominant][2]
                 score_range == score_max - score_min
                 fifths == Min(5, match_count)
                 base_score == score_min + (score_range * fifths) \div 5
             IN  [emotion |-> dominant,
                  score |-> RoundTo(Max(score_min, Min(score_max, base_score)), 1000),
                  confidence |-> Min(90000, 55000 + match_count * 10000)]

\* DetectFromCounts that returns neutral only when the neutral bucket is
\* empty as well.
DetectFromCountsNeutralCounted(counts) ==
    LET total == counts["happy"] + counts["sad"] + counts["anxious"]
                 + counts["calm"] + counts["angry"] + counts["neutral"]
    IN  IF total = 0
        THEN [emotion |-> "neutral", score |-> 0, confidence |-> 50000]
        ELSE LET dominant == FirstMax(PrimaryOrder, counts)
                 match_count == counts[dominant]
                 score_min == EMOTION_SCORE_RANGES[dominant][1]
                 score_max == EMOTION_SCORE_RANGES[dominant][2]
                 score_range == score_max - score_min
                 fifths == Min(5, match_count)
                 base_score == score_min + (score_range * fifths) \div 5
             IN  [emotion |-> dominant,
                  score |-> RoundTo(Max(score_min, Min(score_max, base_score)), 1000),
                  confidence |-> Min(90000, 55000 + match_count * 8000)]

\* Lines 109-137 of _detect_emotion_from_text, given the match counts.
DetectFromCounts(counts) ==
    LET total == counts["happy"] + counts["sad"] + counts["anxious"]
                 + counts["calm"] + counts["angry"]
    IN  IF total = 0
        THEN [emotion |-> "neutral", score |-> 0, confidence |-> 50000]
        ELSE LET dominant == FirstMax(PrimaryOrder, counts)
                 match_count == counts[dominant]
                 score_min == EMOTION_SCORE_RANGES[dominant][1]
                 score_max == EMOTION_SCORE_RANGES[dominant][2]
                 score_range == score_max - score_min
                 \* intensity = min(1.0, match_count / 5.0), as a count of fifths
                 fifths == Min(5, match_count)
                 base_score == score_min + (score_range * fifths) \div 5
             IN  [emotion |-> dominant,
                  score |-> RoundTo(Max(score_min, Min(score_max, base_score)), 1000),
                  confidence |-> Min(90000, 55000 + match_count * 8000)]

_detect_emotion_from_text(txt) ==
    DetectFromCounts(_count_emotion_matches(_tokenize(txt)))

stop_words ==
    {"the", "and", "for", "are", "but", "not", "you", "all", "can",
     "had", "her", "was", "one", "our", "out", "day", "get", "has",
     "him", "his", "how", "its", "may", "now", "off", "old", "own",
     "say", "she", "too", "use", "way", "who", "with", "this", "that",
     "have", "from", "they", "will", "been", "were", "said", "each",
     "which", "their", "there", "what", "when", "where", "would",
     "make", "like", "into", "just", "know", "take", "than", "them",
     "well", "also", "back", "after", "even", "most", "such", "through",
     "those", "then", "about", "should", "since", "could", "still",
     "really", "today", "because", "right", "always", "never", "every",
     "feel", "feels", "felt", "seem", "seems", "seemed",
     "think", "thought", "trying", "tried", "want", "wanted",
     "went", "made", "came", "woke", "spent", "couldn",
     "didn", "doesn", "isn", "wasn", "hasn", "haven", "hadn",
     "myself", "yourself", "himself", "herself", "itself",
     "sometimes", "something", "anything", "nothing", "everything",
     "though", "although", "while", "until", "unless",
     "pass", "must", "much", "many", "more", "some", "same"}

\* Lines 173-198 of _extract_quality_keywords, given the tokens.
QualityKeywords(tokens, token_set, emotion) ==
    LET lexicon == IF emotion \in DOMAIN EMOTION_KEYWORDS
                   THEN EMOTION_KEYWORDS[emotion] ELSE <<>>
        emotion_kwds == SelectSeq(lexicon, LAMBDA kw : kw \in token_set)
        content_words ==
            SelectSeq(tokens,
                      LAMBDA t : /\ Len(t) > 4
                                 /\ IsAlpha(t)
                                 /\ t \notin stop_words
                                 /\ t \notin Range(emotion_kwds))
        final_keywords == Take(Dedupe(emotion_kwds \o content_words, {}), 5)
    IN  IF final_keywords # <<>> THEN final_keywords ELSE <<"journal", "entry">>

TokensKeywords(tokens, emotion) == QualityKeywords(tokens, Range(tokens), emotion)

_extract_quality_keywords(txt, emotion) == TokensKeywords(_tokenize(txt), emotion)

----------------------------------------------------------------------------
(* emotion_validator.py: validate_and_fix, one operator per check.  The     *)
(* working values are a record; "redetected" notes that the values in it   *)
(* were returned by _detect_emotion_from_text during this call.            *)

Redetect(txt) ==
    LET d == _detect_emotion_from_text(txt)
    IN  [emotion |-> d.emotion, score |-> d.score,
         confidence |-> d.confidence, redetected |-> TRUE]

\* Lines 221-227: read the candidate ("x or default" takes the default for a
\* missing key, None, 0 and the empty string alike) and clamp the score.
ReadCandidate(mood_result) ==
    LET e == Get(mood_result, "dominant_emotion", "")
        s == Get(mood_result, "mood_score", 0)
        c == Get(mood_result, "confidence", 0)
    IN  [emotion |-> Lower(IF e = "" THEN "neutral" ELSE e),
         score |-> Max(-100000, Min(100000, s)),
         confidence |-> c,
         redetected |-> FALSE]

\* Check1 with the threshold 0.3 in place of 0.5.
Check1Threshold03(st, txt) ==
    IF st.confidence < 30000 THEN Redetect(txt) ELSE st

\* CHECK 1: low confidence
Check1(st, txt) ==
    IF st.confidence < 50000 THEN Redetect(txt) ELSE st

positive_emotions == {"happy", "calm"}
negative_emotions == {"sad", "anxious", "angry"}

\* Check2and3 with the neutral threshold 0.1 in place of 0.25.
Check2and3Threshold01(st, txt) ==
    IF st.emotion \in positive_emotions /\ st.score < 0
    THEN [st EXCEPT !.score = Abs(st.score)]
    ELSE IF st.emotion \in negative_emotions /\ st.score > 0
    THEN [st EXCEPT !.score = -Abs(st.score)]
    ELSE IF st.emotion = "neutral" /\ Abs(st.score) > 10000
    THEN Redetect(txt)
    ELSE st

\* Check2and3 adopting the re-detected emotion and score of CHECK 3 but
\* keeping the candidate's confidence.
Check2and3KeepConfidence(st, txt) ==
    IF st.emotion \in positive_emotions /\ st.score < 0
    THEN [st EXCEPT !.score = Abs(st.score)]
    ELSE IF st.emotion \in negative_emotions /\ st.score > 0
    THEN [st EXCEPT !.score = -Abs(st.score)]
    ELSE IF st.emotion = "neutral" /\ Abs(st.score) > 25000
    THEN [Redetect(txt) EXCEPT !.confidence = st.confidence]
    ELSE st

\* CHECK 2 and CHECK 3: one if / elif / elif chain
Check2and3(st, txt) ==
    IF st.emotion \in positive_emotions /\ st.score < 0
    THEN [st EXCEPT !.score = Abs(st.score)]
    ELSE IF st.emotion \in negative_emotions /\ st.score > 0
    THEN [st EXCEPT !.score = -Abs(st.score)]
    ELSE IF st.emotion = "neutral" /\ Abs(st.score) > 25000
    THEN Redetect(txt)
    ELSE st

\* Check4 without the clamp.
Check4NoClamp(st) == st

\* CHECK 4: clamp into the emotion's range
Check4(st) ==
    IF st.emotion \in DOMAIN EMOTION_SCORE_RANGES
    THEN LET score_min == EMOTION_SCORE_RANGES[st.emotion][1]
             score_max == EMOTION_SCORE_RANGES[st.emotion][2]
         IN  [st EXCEPT !.score = Max(score_min, Min(score_max, st.score))]
    ELSE st

\* Check5Counts adopting only the re-detected emotion, not its score and
\* confidence.
Check5EmotionOnly(st, counts, txt) ==
    LET best_emotion == FirstMax(PrimaryOrder, counts)
    IN  IF Get(counts, st.emotion, 0) = 0 /\ counts[best_emotion] > 0
        THEN [st EXCEPT !.emotion = Redetect(txt).emotion, !.redetected = TRUE]
        ELSE st

\* Check5Counts overriding only on more than one match of the best emotion.
Check5StrongOnly(st, counts, txt) ==
    LET best_emotion == FirstMax(PrimaryOrder, counts)
    IN  IF Get(counts, st.emotion, 0) = 0 /\ counts[best_emotion] > 1
        THEN Redetect(txt)
        ELSE st

\* Check5Counts overriding a neutral emotion whenever a non-neutral emotion
\* has a keyword in the text, whatever the neutral count.
Check5NeutralUnprotected(st, counts, txt) ==
    LET best_emotion == FirstMax(PrimaryOrder, counts)
    IN  IF (Get(counts, st.emotion, 0) = 0 \/ st.emotion = "neutral")
           /\ counts[best_emotion] > 0
        THEN Redetect(txt)
        ELSE st

\* CHECK 5: cross-validate against text evidence
Check5Counts(st, counts, txt) ==
    LET best_emotion == FirstMax(PrimaryOrder, counts)
    IN  IF Get(counts, st.emotion, 0) = 0 /\ counts[best_emotion] > 0
        THEN Redetect(txt)
        ELSE st

Check5(st, txt) == Check5Counts(st, _count_emotion_matches(_tokenize(txt)), txt)

\* The working values after CHECK 4 (what reaches CHECK 5) and after CHECK 5.
BeforeCheck5(mood_result, txt) ==
    Check4(Check2and3(Check1(ReadCandidate(mood_result), txt), txt))

AfterCheck5(mood_result, txt) == Check5(BeforeCheck5(mood_result, txt), txt)

\* CHECK 6 and the returned dict
FinalResult(st, txt) ==
    [mood_score |-> RoundTo(st.score, 10),
     dominant_emotion |-> st.emotion,
     confidence |-> RoundTo(st.confidence, 10),
     keywords |-> _extract_quality_keywords(txt, st.emotion)]

validate_and_fix(mood_result, txt) == FinalResult(AfterCheck5(mood_result, txt), txt)

----------------------------------------------------------------------------
(* mood_analyzer.py: the rule-based fallback of the analyzer.              *)

FallbackOrder == <<"happy", "sad", "anxious", "calm", "angry">>

\* The fallback's own keyword table (the local "emotions").
emotions ==
    [happy |->
       <<"amazing", "excited", "proud", "wonderful", "great", "fantastic",
         "love", "joy", "thrilled", "excellent", "awesome", "brilliant",
         "delighted", "happy", "grateful", "blessed", "favorite">>,
     sad |->
       <<"sad", "depressed", "unhappy", "disappointed", "miserable",
         "awful", "terrible", "heartbroken", "devastated">>,
     anxious |->
       <<"anxious", "worried", "stressed", "nervous", "overwhelmed",
         "scared", "fearful", "panic", "tense">>,
     calm |->
       <<"calm", "peaceful", "relaxed", "serene", "tranquil",
         "content", "comfortable", "patient", "grounded",
         "present", "mindfulness", "mindful", "simple", "gentle",
         "stillness", "quiet", "steady", "slow">>,
     angry |-> <<"angry", "furious", "irritated", "annoyed", "rage">>]

\* emotions.values(), table after table.
FallbackKeywords ==
    Concat([i \in DOMAIN FallbackOrder |-> emotions[FallbackOrder[i]]])

\* The fallback's own stop-word set.
fallback_stop_words ==
    {"the", "a", "an", "and", "or", "but", "in", "on", "at", "to", "for",
     "of", "with", "by", "from", "up", "about", "into", "during", "have",
     "has", "had", "been", "was", "were", "is", "am", "are", "this", "that",
     "these", "those", "i", "you", "he", "she", "it", "we", "they", "my",
     "your", "his", "her", "its", "our", "their", "because", "really", "today",
     "just", "even", "when", "not", "too", "very", "so", "how", "what",
     "where", "who", "which", "than", "then", "now", "here", "there",
     "myself", "sometimes", "went", "made", "woke", "found", "came"}

RECURSIVE LStrip(_)
LStrip(segs) ==
    IF segs # <<>> /\ Head(segs) \in StripChars THEN LStrip(Tail(segs)) ELSE segs

RECURSIVE RStrip(_)
RStrip(segs) ==
    IF segs # <<>> /\ segs[Len(segs)] \in StripChars
    THEN RStrip(SubSeq(segs, 1, Len(segs) - 1)) ELSE segs

RECURSIVE JoinStr(_)
JoinStr(segs) == IF segs = <<>> THEN "" ELSE Head(segs) \o JoinStr(Tail(segs))

\* w.strip('.,!?;:\'"') of one lower-cased whitespace-separated word, as
\* its remaining segments.
StripWord(w) == RStrip(LStrip([i \in DOMAIN w |-> Lower(w[i])]))

\* str.isalpha() of a stripped word: one alphabetic run and nothing else.
IsAlphaWord(segs) == Len(segs) = 1 /\ IsAlpha(segs[1])

_fallback_analysis(txt) ==
    LET stripped == [i \in DOMAIN txt |-> StripWord(txt[i])]
        word_list == [i \in DOMAIN txt |-> JoinStr(stripped[i])]
        words == Range(word_list)
        match_counts ==
            [e \in DOMAIN emotions |->
               Cardinality({i \in DOMAIN emotions[e] : emotions[e][i] \in words})]
        total_matches == match_counts["happy"] + match_counts["sad"]
                         + match_counts["anxious"] + match_counts["calm"]
                         + match_counts["angry"]
        dominant == IF total_matches = 0 THEN "neutral"
                    ELSE FirstMax(FallbackOrder, match_counts)
        match_count == IF total_matches = 0 THEN 0 ELSE match_counts[dominant]
        mood_score ==
            IF total_matches = 0 THEN 0
            ELSE IF dominant = "happy" THEN Min(85000, match_count * 25000)
            ELSE IF dominant = "calm" THEN Min(55000, match_count * 18000)
            ELSE IF dominant \in {"sad", "anxious", "angry"}
                 THEN Max(-85000, -(match_count * 25000))
            ELSE 0
        confidence ==
            IF total_matches = 0 THEN 50000
            ELSE IF dominant \in {"happy", "calm", "sad", "anxious", "angry"}
                 THEN Min(85000, 65000 + match_count * 10000)
            ELSE 60000
        \* emotion keywords found, table by table, without repeats
        found_keywords ==
            Dedupe(SelectSeq(FallbackKeywords, LAMBDA kw : kw \in words), {})
        kept == SelectSeq([i \in DOMAIN txt |-> i],
                          LAMBDA i : /\ Len(word_list[i]) > 4
                                     /\ IsAlphaWord(stripped[i])
                                     /\ word_list[i] \notin fallback_stop_words
                                     /\ word_list[i] \notin Range(found_keywords))
        other_words == [j \in DOMAIN kept |-> word_list[kept[j]]]
        final_keywords == Take(found_keywords \o other_words, 5)
    IN  [mood_score |-> mood_score,
         dominant_emotion |-> dominant,
         confidence |-> confidence,
         keywords |-> IF final_keywords # <<>> THEN final_keywords
                      ELSE <<"journal", "entry">>]

_neutral_result ==
    [mood_score |-> 0, dominant_emotion |-> "neutral", confidence |-> 50000,
     keywords |-> <<"entry">>]

----------------------------------------------------------------------------
(* mood_analyzer.py: parsing the model's text, the consistency pre-pass    *)
(* and analyze_entry.                                                      *)

\* JSON values as the parsed reply holds them.
JNum(n) == [t |-> "num", v |-> n]
JStr(x) == [t |-> "str", v |-> x]
JNull == [t |-> "null"]
\* A JSON list of strings.
JList(l) == [t |-> "list", v |-> l]
\* A JSON string, given as its pieces between commas.
JCsv(parts) == [t |-> "csv", v |-> parts]

\* Strings float() accepts, with their value.
NumericStrings == ("0.5" :> 50000)

\* float(x) succeeds
FloatOk(x) == x.t = "num" \/ (x.t = "str" /\ x.v \in DOMAIN NumericStrings)

Float(x) == IF x.t = "num" THEN x.v ELSE NumericStrings[x.v]

\* str.strip() on the strings that carry surrounding blanks.
Padded == (" stressed" :> "stressed") @@ (" " :> "") @@ ("worried " :> "worried")

Strip(x) == IF x \in DOMAIN Padded THEN Padded[x] ELSE x

valid_emotions == {"happy", "sad", "anxious", "calm", "angry", "neutral"}

\* The text of the model is one of: text whose extracted part json.loads
\* rejects ("garbage"), valid JSON that is no object ("nonobject"), or a JSON
\* object with the given fields ("object": bare, fenced or inside prose).
\* Returns [ok |-> FALSE] where the source raises.
\* (First the same without the clamps and without the default label.)
_parse_model_jsonNoClamp(raw_text) ==
    IF raw_text.form # "object" THEN [ok |-> FALSE]
    ELSE
    LET parsed == raw_text.fields
        score_in == Get(parsed, "mood_score", JNum(0))
        emotion_in == Get(parsed, "dominant_emotion", JStr("neutral"))
        conf_in == Get(parsed, "confidence", JNum(0))
        keywords_raw == Get(parsed, "keywords", JList(<<>>))
        dominant_emotion == IF emotion_in.t = "str"
                            THEN Lower(emotion_in.v) ELSE "not-a-label"
        cleaned == IF keywords_raw.t \in {"csv", "list"}
                   THEN [i \in DOMAIN keywords_raw.v |-> Strip(keywords_raw.v[i])]
                   ELSE <<>>
        keywords == SelectSeq(cleaned, LAMBDA k : k # "")
    IN  IF ~FloatOk(score_in) \/ ~FloatOk(conf_in) THEN [ok |-> FALSE]
        ELSE [ok |-> TRUE,
              result |->
                [mood_score |-> Float(score_in),
                 dominant_emotion |-> dominant_emotion,
                 confidence |-> Float(conf_in),
                 keywords |-> keywords]]

_parse_model_json(raw_text) ==
    IF raw_text.form # "object" THEN [ok |-> FALSE]
    ELSE
    LET parsed == raw_text.fields
        score_in == Get(parsed, "mood_score", JNum(0))
        emotion_in == Get(parsed, "dominant_emotion", JStr("neutral"))
        conf_in == Get(parsed, "confidence", JNum(0))
        keywords_raw == Get(parsed, "keywords", JList(<<>>))
        \* str(x).lower(); str() of a non-string is never an emotion label
        dominant_emotion == IF emotion_in.t = "str"
                            THEN Lower(emotion_in.v) ELSE "not-a-label"
        cleaned == IF keywords_raw.t \in {"csv", "list"}
                   THEN [i \in DOMAIN keywords_raw.v |-> Strip(keywords_raw.v[i])]
                   ELSE <<>>
        keywords == SelectSeq(cleaned, LAMBDA k : k # "")
    IN  IF ~FloatOk(score_in) \/ ~FloatOk(conf_in) THEN [ok |-> FALSE]
        ELSE [ok |-> TRUE,
              result |->
                [mood_score |-> Max(-100000, Min(100000, Float(score_in))),
                 dominant_emotion |-> IF dominant_emotion \in valid_emotions
                                      THEN dominant_emotion ELSE "neutral",
                 confidence |-> Max(0, Min(100000, Float(conf_in))),
                 keywords |-> keywords]]

\* _fix_emotion_score_consistency treating a neutral score of exactly 0.3
\* as extreme.
_fix_emotion_score_consistencyFrom03(result, original_text) ==
    LET emotion == result.dominant_emotion
        score == result.mood_score
        fallback == _fallback_analysis(original_text)
        keep(corrected_score) ==
            [mood_score |-> corrected_score,
             dominant_emotion |-> emotion,
             confidence |-> result.confidence,
             keywords |-> result.keywords]
    IN  IF emotion \in positive_emotions /\ score < 0 THEN keep(Abs(score))
        ELSE IF emotion \in negative_emotions /\ score > 0 THEN keep(-Abs(score))
        ELSE IF emotion = "neutral" /\ Abs(score) >= 30000
        THEN IF fallback.dominant_emotion # "neutral" THEN fallback ELSE keep(0)
        ELSE keep(score)

_fix_emotion_score_consistency(result, original_text) ==
    LET emotion == result.dominant_emotion
        score == result.mood_score
        fallback == _fallback_analysis(original_text)
        keep(corrected_score) ==
            [mood_score |-> corrected_score,
             dominant_emotion |-> emotion,
             confidence |-> result.confidence,
             keywords |-> result.keywords]
    IN  IF emotion \in positive_emotions /\ score < 0 THEN keep(Abs(score))
        ELSE IF emotion \in negative_emotions /\ score > 0 THEN keep(-Abs(score))
        ELSE IF emotion = "neutral" /\ Abs(score) > 30000
        THEN IF fallback.dominant_emotion # "neutral" THEN fallback ELSE keep(0)
        ELSE keep(score)

\* What the HTTP call can do.  "json_other" is a 200 reply whose body is
\* valid JSON but no object (array, string, number, null); "no_response" is
\* an object without a string "response" field.
FailureKinds == {"timeout", "request_error", "not_json", "no_response"}

\* analyze_entry without the shortcut for empty text.
analyze_entryNoShortcut(txt, o) ==
    IF o.kind \in FailureKinds
    THEN [raised |-> FALSE, posts |-> 1, result |-> _fallback_analysis(txt)]
    ELSE IF o.kind = "json_other"
    THEN [raised |-> TRUE, posts |-> 1]
    ELSE LET p == _parse_model_json(o.reply)
         IN  IF p.ok
             THEN [raised |-> FALSE, posts |-> 1,
                   result |-> _fix_emotion_score_consistency(p.result, txt)]
             ELSE [raised |-> FALSE, posts |-> 1,
                   result |-> _fallback_analysis(txt)]

\* analyze_entry sending the request a second time after a timeout.
analyze_entryRetry(txt, o) ==
    IF txt = <<>>
    THEN [raised |-> FALSE, posts |-> 0, result |-> _neutral_result]
    ELSE IF o.kind = "timeout"
    THEN [raised |-> FALSE, posts |-> 2, result |-> _fallback_analysis(txt)]
    ELSE IF o.kind \in FailureKinds
    THEN [raised |-> FALSE, posts |-> 1, result |-> _fallback_analysis(txt)]
    ELSE IF o.kind = "json_other"
    THEN [raised |-> TRUE, posts |-> 1]
    ELSE LET p == _parse_model_json(o.reply)
         IN  IF p.ok
             THEN [raised |-> FALSE, posts |-> 1,
                   result |-> _fix_emotion_score_consistency(p.result, txt)]
             ELSE [raised |-> FALSE, posts |-> 1,
                   result |-> _fallback_analysis(txt)]

\* analyze_entry answering a connection or HTTP error with the neutral
\* sentinel instead of the fallback's result.
analyze_entryNeutralOnError(txt, o) ==
    IF txt = <<>>
    THEN [raised |-> FALSE, posts |-> 0, result |-> _neutral_result]
    ELSE IF o.kind = "request_error"
    THEN [raised |-> FALSE, posts |-> 1, result |-> _neutral_result]
    ELSE IF o.kind \in FailureKinds
    THEN [raised |-> FALSE, posts |-> 1, result |-> _fallback_analysis(txt)]
    ELSE IF o.kind = "json_other"
    THEN [raised |-> TRUE, posts |-> 1]
    ELSE LET p == _parse_model_json(o.reply)
         IN  IF p.ok
             THEN [raised |-> FALSE, posts |-> 1,
                   result |-> _fix_emotion_score_consistency(p.result, txt)]
             ELSE [raised |-> FALSE, posts |-> 1,
                   result |-> _fallback_analysis(txt)]

\* analyze_entry(text) when the HTTP call, if one is made, does o:
\* [raised |-> TRUE] where an exception leaves the method; posts is the
\* number of requests sent (self._session.post is called at one place).
analyze_entry(txt, o) ==
    IF txt = <<>>
    THEN [raised |-> FALSE, posts |-> 0, result |-> _neutral_result]
    ELSE IF o.kind \in FailureKinds
    THEN [raised |-> FALSE, posts |-> 1, result |-> _fallback_analysis(txt)]
    ELSE IF o.kind = "json_other"
    THEN [raised |-> TRUE, posts |-> 1]  \* data.get on a non-dict: AttributeError
    ELSE LET p == _parse_model_json(o.reply)
         IN  IF p.ok
             THEN [raised |-> FALSE, posts |-> 1,
                   result |-> _fix_emotion_score_consistency(p.result, txt)]
             ELSE [raised |-> FALSE, posts |-> 1,
                   result |-> _fallback_analysis(txt)]

----------------------------------------------------------------------------
(* Inputs: entry texts and candidate results.                              *)

\* Longest text built freely from ShortWords.
MaxWords == 2

\* Raw words covering the cases of the lexicons: a keyword of both
\* classifiers, a keyword of two emotions, a keyword of the validator that
\* is also one of its stop words, a negative keyword, a neutral keyword, a
\* keyword of the analyzer's fallback only, and a capitalised keyword
\* wrapped in punctuation.
ShortWords ==
    {<<"happy">>, <<"content">>, <<"still">>, <<"furious">>, <<"fine">>,
     <<"awful">>, <<"(", "Happy", ")">>}

ShortTexts == UNION {[1..n -> ShortWords] : n \in 0..MaxWords}

\* A text without punctuation, one segment per word.
Plain(ws) == [i \in DOMAIN ws |-> <<ws[i]>>]

\* Texts quoted in the repository: the prompt's examples
\* (mood_analyzer.py, SYSTEM_PROMPT), the entries of utils/test_mood.py and
\* the scenarios of the specification.
SampleTexts ==
    {Plain(<<"worried", "and", "stressed", "out">>),
     <<<<"peaceful">>, <<"walk", ",">>, <<"mindful">>, <<"morning">>>>,
     Plain(<<"excited", "and", "proud", "of", "myself">>),
     Plain(<<"regular", "uneventful", "day">>),
     Plain(<<"I", "am", "furious", "and", "enraged">>),
     Plain(<<"I", "feel", "happy", "today">>),
     Plain(<<"happiness">>),
     <<<<"Today">>, <<"was">>, <<"amazing", "!">>, <<"I">>, <<"spent">>,
       <<"the">>, <<"afternoon">>, <<"with">>, <<"friends">>, <<"at">>,
       <<"the">>, <<"park", ",">>, <<"laughing">>, <<"and">>, <<"feeling">>,
       <<"so">>, <<"grateful">>, <<"for">>, <<"the">>, <<"people">>, <<"in">>,
       <<"my">>, <<"life", ".">>>>,
     <<<<"I">>, <<"feel">>, <<"really">>, <<"low">>, <<"today", ".">>,
       <<"Nothing">>, <<"seems">>, <<"to">>, <<"be">>, <<"going">>,
       <<"right">>, <<"and">>, <<"I", "'", "m">>, <<"worried">>, <<"that">>,
       <<"things">>, <<"won", "'", "t">>, <<"get">>, <<"better", ".">>>>,
     <<<<"I">>, <<"woke">>, <<"up", ",">>, <<"had">>, <<"breakfast", ",">>,
       <<"worked">>, <<"a">>, <<"bit", ",">>, <<"and">>, <<"watched">>,
       <<"a">>, <<"show", ".">>, <<"It">>, <<"was">>, <<"just">>, <<"an">>,
       <<"average">>, <<"day", ",">>, <<"nothing">>, <<"particularly">>,
       <<"good">>, <<"or">>, <<"bad", ".">>>>}

\* Further texts: six keywords of one emotion (the cap at five matches),
\* one keyword each of three emotions in the reverse of the lexicon's
\* order, the hyphenated neutral keyword, words of no lexicon, and a
\* neutral keyword next to three angry ones.
ProbeTexts ==
    {Plain(<<"happy", "joyful", "excited", "proud", "wonderful", "amazing">>),
     Plain(<<"angry", "worried", "sad">>),
     <<<<"so", "-", "so">>>>,
     Plain(<<"the", "cat", "sat">>),
     Plain(<<"okay", "but", "furious", "angry", "mad">>)}

Texts == ShortTexts \cup SampleTexts \cup ProbeTexts

\* A dict holding the keys whose option is present (<<v>>), not the absent
\* ones (<<>>).
Entry(k, opt) == IF opt = <<>> THEN <<>> ELSE k :> opt[1]

Dict(s, e, c, k) ==
    Entry("mood_score", s) @@ Entry("dominant_emotion", e)
      @@ Entry("confidence", c) @@ Entry("keywords", k)

Opt(S) == {<<>>} \cup {<<x>> : x \in S}

CandidateScores == {-80000, -20000, 12000, 25000, 33337, 150000}
CandidateEmotions == {"happy", "calm", "angry", "neutral", "Sad", "excited"}
CandidateConfidences == {30000, 50000, 87654, 90000}

\* Any dict a caller may hand to validate_and_fix: every combination of
\* score, emotion and confidence (each possibly absent) without keywords,
\* some that carry a keyword list, and some with a confidence above 1.
Candidates ==
    {Dict(s, e, c, <<>>) : s \in Opt(CandidateScores), e \in Opt(CandidateEmotions),
                           c \in Opt(CandidateConfidences)}
      \cup {Dict(<<s>>, <<e>>, <<c>>, <<<<"content">>>>) :
              s \in {12000, 33337}, e \in {"calm", "neutral"},
              c \in {30000, 87654, 90000}}
      \cup {Dict(<<33337>>, <<e>>, <<150000>>, <<>>) : e \in {"happy", "excited"}}

ReplyScores == {JNum(-80000), JNum(30000), JNum(40000), JNum(250000), JNull}
ReplyEmotions == {JStr("calm"), JStr("Happy"), JStr("angry"), JStr("neutral"),
                  JStr("excited")}
ReplyConfidences == {JNum(30000), JNum(90000), JNum(150000), JStr("0.5"),
                     JStr("high")}
ReplyKeywords == {JList(<<"worried ", " stressed", " ">>),
                  JCsv(<<"worried", " stressed">>), JNum(3)}

\* The contradictory replies named in the docstring of
\* _fix_emotion_score_consistency.
DocstringReplies ==
    {[form |-> "object",
      fields |-> Dict(<<JNum(s)>>, <<JStr(e)>>, <<JNum(90000)>>, <<>>)] :
       s \in {-80000, -50000}, e \in {"calm", "happy", "neutral"}}

\* The texts the model may answer with: unparseable text, JSON that is no
\* object, and objects with every combination of score, emotion and
\* confidence (each possibly absent), some of them with keywords.
Replies ==
    {[form |-> "garbage"], [form |-> "nonobject"]}
      \cup DocstringReplies
      \cup {[form |-> "object", fields |-> Dict(s, e, c, <<>>)] :
              s \in Opt(ReplyScores), e \in Opt(ReplyEmotions),
              c \in Opt(ReplyConfidences)}
      \cup {[form |-> "object",
             fields |-> Dict(<<JNum(40000)>>, <<JStr("calm")>>, <<JNum(90000)>>, <<k>>)] :
              k \in ReplyKeywords}

\* Every outcome of the one HTTP call.
Outcomes ==
    {[kind |-> k] : k \in FailureKinds \cup {"json_other"}}
      \cup {[kind |-> "reply", reply |-> r] : r \in Replies}

NoResult == [none |-> TRUE]

\* The default reflection prompts init_database inserts.
sample_prompts ==
    <<[prompt_text |-> "List three things you are grateful for today and why.",
       category |-> "gratitude"],
      [prompt_text |-> "Describe a small win you had recently. How did it make you feel?",
       category |-> "gratitude"],
      [prompt_text |-> "What is one area of your life where you've grown in the last year?",
       category |-> "growth"],
      [prompt_text |-> "What is a skill you would like to develop and why?",
       category |-> "growth"],
      [prompt_text |-> "Describe a recent challenge. What did you learn from it?",
       category |-> "challenge"],
      [prompt_text |-> "What is one fear that has been holding you back lately?",
       category |-> "challenge"],
      [prompt_text |-> "If you had a completely free day, how would you spend it creatively?",
       category |-> "creativity"],
      [prompt_text |-> "Write about a time when you surprised yourself with your creativity.",
       category |-> "creativity"],
      [prompt_text |-> "Write a thank-you letter (you don't have to send it) to someone who impacted you.",
       category |-> "gratitude"],
      [prompt_text |-> "Imagine your best self in five years. What daily habits does that version of you have?",
       category |-> "growth"]>>

\* The tables right after the init_database call of the application's
\* start (app.py), and no journal operation run.
InitDb ==
    /\ entries = <<>>
    /\ moods = <<>>
    /\ prompts = [created |-> TRUE, rows |-> sample_prompts]
    /\ call = [op |-> "none"]

----------------------------------------------------------------------------
(* validate_and_fix as a pure function: applied to any candidate, then to  *)
(* its own result.                                                         *)

InitValidator ==
    /\ text \in Texts
    /\ raw \in Candidates
    /\ pc = "analyzed"
    /\ outcome = [kind |-> "direct"]
    /\ mood = NoResult
    /\ mood2 = NoResult
    /\ redetected = FALSE
    /\ requests = 0
    /\ InitDb

\* mood_data = validate_and_fix(raw_mood, content)
ValidateAndFix ==
    /\ pc = "analyzed"
    /\ mood' = validate_and_fix(raw, text)
    /\ redetected' = AfterCheck5(raw, text).redetected
    /\ pc' = "validated"
    /\ UNCHANGED <<text, outcome, raw, mood2, requests>>
    /\ UNCHANGED dbVars

\* validate_and_fix(validate_and_fix(x, t), t)
Revalidate ==
    /\ pc = "validated"
    /\ mood2' = validate_and_fix(mood, text)
    /\ pc' = "revalidated"
    /\ UNCHANGED <<text, outcome, raw, mood, redetected, requests>>
    /\ UNCHANGED dbVars

NextValidator == ValidateAndFix \/ Revalidate

SpecValidator == InitValidator /\ [][NextValidator]_vars

----------------------------------------------------------------------------
(* The rule-based classifier as a pure function of the text: raw holds the *)
(* match counts, mood the emotion, score and confidence of                 *)
(* _detect_emotion_from_text with the keywords of                          *)
(* _extract_quality_keywords for that emotion.                             *)

InitClassifier ==
    /\ text \in Texts
    /\ pc = "start"
    /\ outcome = [kind |-> "direct"]
    /\ raw = NoResult
    /\ mood = NoResult
    /\ mood2 = NoResult
    /\ redetected = FALSE
    /\ requests = 0
    /\ InitDb

Classify ==
    /\ pc = "start"
    /\ raw' = _count_emotion_matches(_tokenize(text))
    /\ LET d == _detect_emotion_from_text(text)
       IN  mood' = [mood_score |-> d.score,
                    dominant_emotion |-> d.emotion,
                    confidence |-> d.confidence,
                    keywords |-> _extract_quality_keywords(text, d.emotion)]
    /\ pc' = "classified"
    /\ UNCHANGED <<text, outcome, mood2, redetected, requests>>
    /\ UNCHANGED dbVars

NextClassifier == Classify

SpecClassifier == InitClassifier /\ [][NextClassifier]_vars

----------------------------------------------------------------------------
(* The pipeline of an entry write (journal_manager.py, create_entry and    *)
(* update_entry): analyze_entry, then validate_and_fix on its result.      *)

Init ==
    /\ text \in Texts
    /\ pc = "start"
    /\ outcome = [kind |-> "none"]
    /\ raw = NoResult
    /\ mood = NoResult
    /\ mood2 = NoResult
    /\ redetected = FALSE
    /\ requests = 0
    /\ InitDb

\* raw_mood = self._mood_analyzer.analyze_entry(content); o is what the
\* service would do with a request, recorded only when one was sent.
AnalyzeEntry ==
    /\ pc = "start"
    /\ \E o \in Outcomes :
         LET r == analyze_entry(text, o)
         IN  /\ outcome' = IF r.posts = 0 THEN [kind |-> "no_request"] ELSE o
             /\ requests' = requests + r.posts
             /\ pc' = IF r.raised THEN "raised" ELSE "analyzed"
             /\ raw' = IF r.raised THEN NoResult ELSE r.result
    /\ UNCHANGED <<text, mood, mood2, redetected>>
    /\ UNCHANGED dbVars

Next == AnalyzeEntry \/ ValidateAndFix

Spec == Init /\ [][Next]_vars

----------------------------------------------------------------------------
(* journal_manager.py: create_entry, update_entry and delete_entry over    *)
(* the tables journal_entries (entries: id -> row) and mood_analyses       *)
(* (moods: rows in order of insertion, the order of analyzed_at).  Each    *)
(* operation is one transaction: a failure before the commit, an exception *)
(* included, leaves the tables as they were (session.close in "finally"    *)
(* discards what was flushed).                                             *)

\* Largest id an entry gets.
MaxEntryId == 2

\* Contents written to the journal: blank, a text with angry evidence and
\* a text with neutral evidence only.
JournalTexts ==
    {<<>>,
     Plain(<<"I", "am", "furious", "and", "enraged">>),
     Plain(<<"regular", "uneventful", "day">>)}

\* What the model service does during a journal operation: a timeout, a
\* JSON body that is no object, text that is no JSON, a self-contradictory
\* reply, a reply with every value out of range.
JournalReplies ==
    {[form |-> "garbage"],
     [form |-> "object",
      fields |-> Dict(<<JNum(-80000)>>, <<JStr("calm")>>, <<JNum(90000)>>, <<>>)],
     [form |-> "object",
      fields |-> Dict(<<JNum(250000)>>, <<JStr("excited")>>, <<JNum(150000)>>, <<>>)]}

JournalOutcomes ==
    {[kind |-> "timeout"], [kind |-> "json_other"]}
      \cup {[kind |-> "reply", reply |-> r] : r \in JournalReplies}

\* The database during one operation: it works, its first statement fails,
\* or the commit fails (SQLAlchemyError either way).
DbBehaviours == {"ok", "first_fails", "commit_fails"}

\* While the tables do not exist the first statement of every operation
\* fails (OperationalError: no such table).
DbNow == IF prompts.created THEN DbBehaviours ELSE {"first_fails"}

\* The id of a new row of journal_entries: INTEGER PRIMARY KEY.
NewId(es) ==
    IF DOMAIN es = {} THEN 1
    ELSE (CHOOSE i \in DOMAIN es : \A j \in DOMAIN es : j <= i) + 1

\* ",".join(keywords) or None, as the pieces of the joined string.
RECURSIVE CommaJoin(_)
CommaJoin(ks) ==
    IF ks = <<>> THEN <<>>
    ELSE IF Len(ks) = 1 THEN ks
    ELSE <<Head(ks), ",">> \o CommaJoin(Tail(ks))

\* The value of the keywords column: NULL or a string.
NoneValue == [is_none |-> TRUE]

JoinOrNone(ks) ==
    IF ks = <<>> THEN NoneValue
    ELSE [is_none |-> FALSE, pieces |-> CommaJoin(ks)]

\* keywords.split(",") if keywords else []
SplitKeywords(stored) ==
    IF stored.is_none THEN <<>>
    ELSE SelectSeq(stored.pieces, LAMBDA piece : piece # ",")

\* MoodAnalysis(entry_id = ..., mood_score = mood_data.get(...), ...)
MoodRow(entry_id, mood_data) ==
    [entry_id |-> entry_id,
     mood_score |-> Get(mood_data, "mood_score", 0),
     dominant_emotion |-> Get(mood_data, "dominant_emotion", "neutral"),
     confidence |-> Get(mood_data, "confidence", 0),
     keywords |-> JoinOrNone(Get(mood_data, "keywords", <<>>))]

\* The CHECK constraints of mood_analyses.
CheckConstraints(row) ==
    /\ row.mood_score >= -100000 /\ row.mood_score <= 100000
    /\ row.confidence >= 0 /\ row.confidence <= 100000
    /\ row.dominant_emotion \in {"happy", "sad", "anxious", "calm", "angry", "neutral"}

\* The rows of mood_analyses that belong to an entry, as indices.
RowsOf(ms, entry_id) == {k \in DOMAIN ms : ms[k].entry_id = entry_id}

\* UpdateMood keeping the keywords of the previous analysis.
UpdateMoodKeepKeywords(ms, entry_id, mood_data) ==
    LET rows == RowsOf(ms, entry_id)
    IN  IF rows = {} THEN Append(ms, MoodRow(entry_id, mood_data))
        ELSE LET latest == CHOOSE k \in rows : \A j \in rows : j <= k
             IN  [ms EXCEPT ![latest] =
                    [MoodRow(entry_id, mood_data) EXCEPT !.keywords = ms[latest].keywords]]

\* update_entry, lines 178-199: the latest mood row of the entry takes the
\* four fields of the new analysis; a row is added if the entry has none.
UpdateMood(ms, entry_id, mood_data) ==
    LET rows == RowsOf(ms, entry_id)
    IN  IF rows = {} THEN Append(ms, MoodRow(entry_id, mood_data))
        ELSE LET latest == CHOOSE k \in rows : \A j \in rows : j <= k
                 row == ms[latest]
             IN  [ms EXCEPT ![latest] =
                    [entry_id |-> row.entry_id,
                     mood_score |-> Get(mood_data, "mood_score", row.mood_score),
                     dominant_emotion |->
                       Get(mood_data, "dominant_emotion", row.dominant_emotion),
                     confidence |-> Get(mood_data, "confidence", row.confidence),
                     keywords |-> JoinOrNone(Get(mood_data, "keywords", <<>>))]]

\* session.delete(entry) with cascade "all, delete-orphan".
DeleteCascade(ms, entry_id) ==
    SelectSeq(ms, LAMBDA row : row.entry_id # entry_id)

\* analyze_entry followed by validate_and_fix, as both writes run them.
AnalyzeAndValidate(content, o) ==
    LET r == analyze_entry(content, o)
    IN  IF r.raised THEN [raised |-> TRUE, posts |-> r.posts]
        ELSE [raised |-> FALSE, posts |-> r.posts, raw |-> r.result,
              mood_data |-> validate_and_fix(r.result, content),
              redetected |-> AfterCheck5(r.result, content).redetected]

\* The analyses a write can run: one per content and behaviour of the
\* model service.
JournalRuns ==
    {[content |-> c, o |-> o, run |-> AnalyzeAndValidate(c, o)] :
       c \in JournalTexts, o \in JournalOutcomes}

\* An operation on the given content that ended before any analysis.
NoRun(content) ==
    [content |-> content, o |-> [kind |-> "no_request"],
     run |-> [raised |-> FALSE, posts |-> 0]]

\* What an operation leaves behind about itself: which operation on which
\* entry, how it ended, and the analysis r it ran, if any.
Ended(op, entry_id, status, r) ==
    /\ call' = [op |-> op, entry_id |-> entry_id]
    /\ pc' = status
    /\ text' = r.content
    /\ requests' = r.run.posts
    /\ outcome' = IF r.run.posts = 0 THEN [kind |-> "no_request"] ELSE r.o
    /\ raw' = IF "raw" \in DOMAIN r.run THEN r.run.raw ELSE NoResult
    /\ mood' = IF "mood_data" \in DOMAIN r.run THEN r.run.mood_data ELSE NoResult
    /\ redetected' = IF "redetected" \in DOMAIN r.run THEN r.run.redetected ELSE FALSE
    /\ UNCHANGED <<mood2, prompts>>

CreateEntry ==
    \E r \in JournalRuns, db \in DbNow, entry_id \in {NewId(entries)} :
      IF r.content = <<>>
      THEN /\ Ended("create", 0, "rejected", NoRun(r.content))
           /\ UNCHANGED <<entries, moods>>
      ELSE
      /\ entry_id <= MaxEntryId
      /\ IF db = "first_fails"
         THEN /\ Ended("create", 0, "db_error", NoRun(r.content))
              /\ UNCHANGED <<entries, moods>>
         ELSE IF r.run.raised
         THEN /\ Ended("create", entry_id, "raised", r)
              /\ UNCHANGED <<entries, moods>>
         ELSE IF db = "commit_fails"
         THEN /\ Ended("create", entry_id, "db_error", r)
              /\ UNCHANGED <<entries, moods>>
         ELSE IF ~CheckConstraints(MoodRow(entry_id, r.run.mood_data))
         THEN /\ Ended("create", entry_id, "integrity_error", r)
              /\ UNCHANGED <<entries, moods>>
         ELSE /\ Ended("create", entry_id, "committed", r)
              /\ entries' = entries @@ (entry_id :> [content |-> r.content])
              /\ moods' = Append(moods, MoodRow(entry_id, r.run.mood_data))

\* UpdateEntry running the analysis before it looks the entry up.
UpdateEntryAnalyzeFirst ==
    \E entry_id \in 1..MaxEntryId, r \in JournalRuns, db \in DbNow :
      IF db = "first_fails"
      THEN /\ Ended("update", entry_id, "db_error", NoRun(r.content))
           /\ UNCHANGED <<entries, moods>>
      ELSE IF r.run.raised
      THEN /\ Ended("update", entry_id, "raised", r)
           /\ UNCHANGED <<entries, moods>>
      ELSE IF entry_id \notin DOMAIN entries
      THEN /\ Ended("update", entry_id, "not_found", r)
           /\ UNCHANGED <<entries, moods>>
      ELSE IF r.content = <<>>
      THEN /\ Ended("update", entry_id, "rejected", r)
           /\ UNCHANGED <<entries, moods>>
      ELSE IF db = "commit_fails"
      THEN /\ Ended("update", entry_id, "db_error", r)
           /\ UNCHANGED <<entries, moods>>
      ELSE \E updated \in {UpdateMood(moods, entry_id, r.run.mood_data)} :
             IF \E k \in DOMAIN updated : ~CheckConstraints(updated[k])
             THEN /\ Ended("update", entry_id, "integrity_error", r)
                  /\ UNCHANGED <<entries, moods>>
             ELSE /\ Ended("update", entry_id, "committed", r)
                  /\ entries' = [entries EXCEPT ![entry_id] = [content |-> r.content]]
                  /\ moods' = updated

UpdateEntry ==
    \E entry_id \in 1..MaxEntryId, r \in JournalRuns, db \in DbNow :
      IF db = "first_fails"
      THEN /\ Ended("update", entry_id, "db_error", NoRun(r.content))
           /\ UNCHANGED <<entries, moods>>
      ELSE IF entry_id \notin DOMAIN entries
      THEN /\ Ended("update", entry_id, "not_found", NoRun(r.content))
           /\ UNCHANGED <<entries, moods>>
      ELSE IF r.content = <<>>
      THEN /\ Ended("update", entry_id, "rejected", NoRun(r.content))
           /\ UNCHANGED <<entries, moods>>
      ELSE IF r.run.raised
      THEN /\ Ended("update", entry_id, "raised", r)
           /\ UNCHANGED <<entries, moods>>
      ELSE IF db = "commit_fails"
      THEN /\ Ended("update", entry_id, "db_error", r)
           /\ UNCHANGED <<entries, moods>>
      ELSE \E updated \in {UpdateMood(moods, entry_id, r.run.mood_data)} :
             IF \E k \in DOMAIN updated : ~CheckConstraints(updated[k])
             THEN /\ Ended("update", entry_id, "integrity_error", r)
                  /\ UNCHANGED <<entries, moods>>
             ELSE /\ Ended("update", entry_id, "committed", r)
                  /\ entries' = [entries EXCEPT ![entry_id] = [content |-> r.content]]
                  /\ moods' = updated

DeleteEntry ==
    \E entry_id \in 1..MaxEntryId, db \in DbNow :
      IF db = "first_fails"
      THEN /\ Ended("delete", entry_id, "db_error", NoRun(<<>>))
           /\ UNCHANGED <<entries, moods>>
      ELSE IF entry_id \notin DOMAIN entries
      THEN /\ Ended("delete", entry_id, "not_found", NoRun(<<>>))
           /\ UNCHANGED <<entries, moods>>
      ELSE IF db = "commit_fails"
      THEN /\ Ended("delete", entry_id, "db_error", NoRun(<<>>))
           /\ UNCHANGED <<entries, moods>>
      ELSE /\ Ended("delete", entry_id, "deleted", NoRun(<<>>))
           /\ entries' = [i \in DOMAIN entries \ {entry_id} |-> entries[i]]
           /\ moods' = DeleteCascade(moods, entry_id)

InitJournal ==
    /\ text = <<>>
    /\ pc = "idle"
    /\ outcome = [kind |-> "none"]
    /\ raw = NoResult
    /\ mood = NoResult
    /\ mood2 = NoResult
    /\ redetected = FALSE
    /\ requests = 0
    /\ InitDb

NextJournal == CreateEntry \/ UpdateEntry \/ DeleteEntry

SpecJournal == InitJournal /\ [][NextJournal]_vars

----------------------------------------------------------------------------
(* The rule-based path run twice on one text, with calls on other texts    *)
(* before and between the two runs.  Neither module keeps anything from    *)
(* one call to the next: EMOTION_KEYWORDS and EMOTION_SCORE_RANGES are      *)
(* never assigned, the sets built from the tokens are used for membership  *)
(* tests only, and MoodAnalyzer holds the HTTP session and two strings.    *)
(* mood holds the first result, mood2 the second.                          *)

\* Calls on other texts around the two runs.
MaxOtherCalls == 1

\* How the model service is unavailable: no answer in time, or a connection
\* or HTTP error.
UnavailableOutcomes == {[kind |-> "timeout"], [kind |-> "request_error"]}

RepeatCandidates ==
    {Dict(<<-80000>>, <<"calm">>, <<90000>>, <<>>),
     Dict(<<33337>>, <<"neutral">>, <<87654>>, <<<<"content">>>>),
     Dict(<<12000>>, <<"happy">>, <<30000>>, <<>>),
     Dict(<<>>, <<"excited">>, <<>>, <<>>)}

InitRepeat ==
    /\ text \in Texts
    /\ pc = "start"
    /\ outcome = [kind |-> "none"]
    /\ raw = NoResult
    /\ mood = NoResult
    /\ mood2 = NoResult
    /\ redetected = FALSE
    /\ requests = 0
    /\ entries = <<>>
    /\ moods = <<>>
    /\ prompts = [created |-> TRUE, rows |-> sample_prompts]
    /\ call = [op |-> "none", others |-> 0]

\* The first run (pc = "start") of one of the three functions, or the
\* second run (pc = "first") of the function that ran first.
RunOf(op) == pc = "start" \/ (pc = "first" /\ call.op = op)

\* Where a run leaves its result.
Ran(op, result) ==
    /\ call' = [call EXCEPT !.op = op]
    /\ pc' = IF pc = "start" THEN "first" ELSE "second"
    /\ mood' = IF pc = "start" THEN result ELSE mood
    /\ mood2' = IF pc = "start" THEN mood2 ELSE result
    /\ UNCHANGED <<text, redetected, entries, moods, prompts>>

\* _detect_emotion_from_text(text)
RunDetect ==
    /\ RunOf("detect")
    /\ Ran("detect", _detect_emotion_from_text(text))
    /\ UNCHANGED <<raw, outcome, requests>>

\* validate_and_fix(candidate, text), the second time with the dict the
\* first run was given.
RunValidate ==
    /\ RunOf("validate")
    /\ \E candidate \in (IF pc = "start" THEN RepeatCandidates ELSE {raw}) :
         /\ raw' = candidate
         /\ Ran("validate", validate_and_fix(candidate, text))
    /\ UNCHANGED <<outcome, requests>>

\* analyze_entry(text) while the service is unavailable, in either way each
\* time.
RunUnavailable ==
    /\ RunOf("analyze")
    /\ \E o \in UnavailableOutcomes :
       \E r \in {analyze_entry(text, o)} :
         /\ outcome' = IF r.posts = 0 THEN [kind |-> "no_request"] ELSE o
         /\ requests' = requests + r.posts
         /\ Ran("analyze", r.result)
    /\ UNCHANGED raw

\* A call of analyze_entry and validate_and_fix on another text, before the
\* two runs or between them: it returns to its caller and leaves nothing
\* behind but the request it sent.
OtherCall ==
    /\ pc \in {"start", "first"}
    /\ call.others < MaxOtherCalls
    /\ \E r \in JournalRuns :
         /\ r.content # text
         /\ requests' = requests + r.run.posts
    /\ call' = [call EXCEPT !.others = call.others + 1]
    /\ UNCHANGED <<text, pc, outcome, raw, mood, mood2, redetected,
                   entries, moods, prompts>>

NextRepeat == RunDetect \/ RunValidate \/ RunUnavailable \/ OtherCall

SpecRepeat == InitRepeat /\ [][NextRepeat]_vars

----------------------------------------------------------------------------

(* Two calls of create_entry / update_entry in two threads that share one  *)
(* JournalManager (and so one MoodAnalyzer).  Each call has its own        *)
(* SQLAlchemy session; raw_mood, mood_data and the loaded rows are local   *)
(* to the call.  The calls meet in the database only:                      *)
(*   - a SELECT takes no lock that outlives it (the sqlite3 driver begins  *)
(*     a transaction at the first INSERT / UPDATE, not at a SELECT);       *)
(*   - session.flush() in create_entry INSERTs, so create_entry holds the  *)
(*     write lock from its flush to its commit, across the model call;     *)
(*     another writer then waits and, if the wait outlasts the busy        *)
(*     timeout, fails with "database is locked" (an SQLAlchemyError);      *)
(*   - at commit the session UPDATEs, by primary key, the columns whose    *)
(*     new value differs from the value it loaded; a column assigned the   *)
(*     value it already had is not written.                                *)
(* call holds the two calls in progress and the holder of the write lock.  *)

Threads == {1, 2}

\* The tables after one committed create_entry.
StoredAfterCreate ==
    {[entries |-> 1 :> [content |-> r.content],
      moods |-> <<MoodRow(1, r.run.mood_data)>>] :
       r \in {x \in JournalRuns : x.content # <<>> /\ ~x.run.raised}}

InitInterleaved ==
    /\ text = <<>>
    /\ pc = "idle"
    /\ outcome = [kind |-> "none"]
    /\ raw = NoResult
    /\ mood = NoResult
    /\ mood2 = NoResult
    /\ redetected = FALSE
    /\ requests = 0
    /\ \E db \in StoredAfterCreate : entries = db.entries /\ moods = db.moods
    /\ prompts = [created |-> TRUE, rows |-> sample_prompts]
    /\ call = [calls |-> [t \in Threads |-> [stage |-> "idle"]], writer |-> 0]

\* The call of thread t moves on to the record c; the write lock goes to w.
Step(t, c, w) ==
    /\ call' = [calls |-> [call.calls EXCEPT ![t] = c], writer |-> w]
    /\ UNCHANGED prompts

\* The call of thread t has returned.
Done(t, status) ==
    [stage |-> "done", op |-> call.calls[t].op, status |-> status,
     entry_id |-> call.calls[t].entry_id, content |-> call.calls[t].content]

\* mood.mood_score = mood_data.get("mood_score", mood.mood_score), ...
\* (update_entry, lines 196-199) on the row the session loaded.
AssignMood(row, mood_data) ==
    [entry_id |-> row.entry_id,
     mood_score |-> Get(mood_data, "mood_score", row.mood_score),
     dominant_emotion |-> Get(mood_data, "dominant_emotion", row.dominant_emotion),
     confidence |-> Get(mood_data, "confidence", row.confidence),
     keywords |-> JoinOrNone(Get(mood_data, "keywords", <<>>))]

\* The UPDATE of a flush: of the stored row, the columns whose assigned
\* value differs from the loaded one take the assigned value.
FlushRow(stored, loaded, assigned) ==
    [f \in DOMAIN stored |-> IF assigned[f] = loaded[f] THEN stored[f] ELSE assigned[f]]

\* create_entry up to session.flush(): blank content is refused; otherwise
\* the entry is INSERTed, which takes the write lock.
CreateFlush(t) ==
    /\ call.calls[t].stage = "idle"
    /\ \E content \in JournalTexts :
         IF content = <<>>
         THEN Step(t, [stage |-> "done", op |-> "create", status |-> "rejected",
                       entry_id |-> 0, content |-> content], call.writer)
         ELSE /\ call.writer = 0
              /\ NewId(entries) <= MaxEntryId
              /\ Step(t, [stage |-> "flushed", op |-> "create",
                          entry_id |-> NewId(entries), content |-> content], t)
    /\ UNCHANGED <<entries, moods>>
    /\ UNCHANGED callVars

\* create_entry, lines 59-64: the model call and validate_and_fix.  An
\* exception leaves the method through session.close(), which rolls back.
CreateAnalyze(t) ==
    /\ call.calls[t].stage = "flushed"
    /\ \E r \in JournalRuns :
         /\ r.content = call.calls[t].content
         /\ IF r.run.raised
            THEN Step(t, Done(t, "raised"), 0)
            ELSE Step(t, [call.calls[t] EXCEPT !.stage = "analysed"]
                           @@ [mood_data |-> r.run.mood_data], call.writer)
    /\ UNCHANGED <<entries, moods>>
    /\ UNCHANGED callVars

\* create_entry, lines 66-76: the mood row is added and both rows are
\* committed.
CreateCommit(t) ==
    /\ call.calls[t].stage = "analysed"
    /\ call.calls[t].op = "create"
    /\ entries' = entries @@
                    (call.calls[t].entry_id :> [content |-> call.calls[t].content])
    /\ moods' = Append(moods, MoodRow(call.calls[t].entry_id, call.calls[t].mood_data))
    /\ Step(t, Done(t, "committed"), 0)
    /\ UNCHANGED callVars

\* update_entry up to line 172: the entry is loaded and takes the new
\* content inside the session.
UpdateGet(t) ==
    /\ call.calls[t].stage = "idle"
    /\ \E entry_id \in 1..MaxEntryId, content \in JournalTexts :
         LET c == [op |-> "update", entry_id |-> entry_id, content |-> content]
         IN  IF entry_id \notin DOMAIN entries
             THEN Step(t, c @@ [stage |-> "done", status |-> "not_found"], call.writer)
             ELSE IF content = <<>>
             THEN Step(t, c @@ [stage |-> "done", status |-> "rejected"], call.writer)
             ELSE Step(t, c @@ [stage |-> "loaded", seen |-> entries[entry_id].content],
                       call.writer)
    /\ UNCHANGED <<entries, moods>>
    /\ UNCHANGED callVars

\* update_entry, lines 174-176: the model call and validate_and_fix.
UpdateAnalyze(t) ==
    /\ call.calls[t].stage = "loaded"
    /\ \E r \in JournalRuns :
         /\ r.content = call.calls[t].content
         /\ IF r.run.raised
            THEN Step(t, Done(t, "raised"), call.writer)
            ELSE Step(t, [call.calls[t] EXCEPT !.stage = "analysed"]
                           @@ [mood_data |-> r.run.mood_data], call.writer)
    /\ UNCHANGED <<entries, moods>>
    /\ UNCHANGED callVars

\* update_entry, lines 178-183: the latest mood row of the entry is loaded
\* (found 0: there is none).
UpdateQuery(t) ==
    /\ call.calls[t].stage = "analysed"
    /\ call.calls[t].op = "update"
    /\ LET rows == RowsOf(moods, call.calls[t].entry_id)
           latest == IF rows = {} THEN 0
                     ELSE CHOOSE k \in rows : \A j \in rows : j <= k
       IN  Step(t, [call.calls[t] EXCEPT !.stage = "queried"]
                     @@ [found |-> latest,
                         loaded |-> IF latest = 0 THEN NoneValue ELSE moods[latest]],
                call.writer)
    /\ UNCHANGED <<entries, moods>>
    /\ UNCHANGED callVars

\* update_entry, lines 185-201: the assignments to the mood row and the
\* commit, which flushes the changed columns of both rows.
UpdateCommit(t) ==
    /\ call.calls[t].stage = "queried"
    /\ call.writer = 0
    /\ LET c == call.calls[t]
       IN  /\ entries' = [entries EXCEPT ![c.entry_id] =
                            [content |-> IF c.content = c.seen
                                         THEN entries[c.entry_id].content
                                         ELSE c.content]]
           /\ moods' = IF c.found = 0
                       THEN Append(moods, MoodRow(c.entry_id, c.mood_data))
                       ELSE [moods EXCEPT ![c.found] =
                               FlushRow(moods[c.found], c.loaded,
                                        AssignMood(c.loaded, c.mood_data))]
    /\ Step(t, Done(t, "committed"), 0)
    /\ UNCHANGED callVars

\* A commit of update_entry or a flush of create_entry that waited for the
\* write lock longer than the busy timeout: OperationalError, caught as
\* SQLAlchemyError, and the call reports failure.
DatabaseLocked(t) ==
    /\ call.writer \notin {0, t}
    /\ \/ /\ call.calls[t].stage = "queried"
          /\ Step(t, Done(t, "db_error"), call.writer)
       \/ /\ call.calls[t].stage = "idle"
          /\ \E content \in JournalTexts \ {<<>>} :
               Step(t, [stage |-> "done", op |-> "create", status |-> "db_error",
                        entry_id |-> 0, content |-> content], call.writer)
    /\ UNCHANGED <<entries, moods>>
    /\ UNCHANGED callVars

NextInterleaved ==
    \E t \in Threads :
       \/ CreateFlush(t) \/ CreateAnalyze(t) \/ CreateCommit(t)
       \/ UpdateGet(t) \/ UpdateAnalyze(t) \/ UpdateQuery(t) \/ UpdateCommit(t)
       \/ DatabaseLocked(t)

SpecInterleaved == InitInterleaved /\ [][NextInterleaved]_vars

----------------------------------------------------------------------------

(* db_setup.py: init_database called any number of times on a database    *)
(* file that starts without tables, between journal operations that take   *)
(* their sessions from get_session.  Nothing but init_database writes to   *)
(* reflection_prompts.                                                     *)

\* init_database seeding without looking at the number of prompts present.
InitDatabaseAlwaysSeeds ==
    /\ \E db \in DbBehaviours :
         IF db = "first_fails"
         THEN /\ pc' = "init_failed"
              /\ call' = [op |-> "init_database", seeded |-> FALSE]
              /\ UNCHANGED prompts
         ELSE IF db = "commit_fails"
         THEN /\ pc' = "init_failed"
              /\ call' = [op |-> "init_database", seeded |-> FALSE]
              /\ prompts' = [created |-> TRUE, rows |-> prompts.rows]
         ELSE /\ pc' = "initialized"
              /\ call' = [op |-> "init_database", seeded |-> TRUE]
              /\ prompts' = [created |-> TRUE, rows |-> prompts.rows \o sample_prompts]
    /\ UNCHANGED <<text, outcome, raw, mood, mood2, redetected, requests,
                   entries, moods>>

\* init_database: create_all, then the seeding inside one session; an
\* SQLAlchemyError at either place is caught and reported in the message.
InitDatabase ==
    /\ \E db \in DbBehaviours :
         IF db = "first_fails"
         THEN /\ pc' = "init_failed"
              /\ call' = [op |-> "init_database", seeded |-> FALSE]
              /\ UNCHANGED prompts
         ELSE IF Len(prompts.rows) # 0
         THEN /\ pc' = "initialized"
              /\ call' = [op |-> "init_database", seeded |-> FALSE]
              /\ prompts' = [created |-> TRUE, rows |-> prompts.rows]
         ELSE IF db = "commit_fails"
         THEN /\ pc' = "init_failed"
              /\ call' = [op |-> "init_database", seeded |-> FALSE]
              /\ prompts' = [created |-> TRUE, rows |-> prompts.rows]
         ELSE /\ pc' = "initialized"
              /\ call' = [op |-> "init_database", seeded |-> TRUE]
              /\ prompts' = [created |-> TRUE, rows |-> prompts.rows \o sample_prompts]
    /\ UNCHANGED <<text, outcome, raw, mood, mood2, redetected, requests,
                   entries, moods>>

\* A database file on which init_database has not run yet.
InitFresh ==
    /\ text = <<>>
    /\ pc = "idle"
    /\ outcome = [kind |-> "none"]
    /\ raw = NoResult
    /\ mood = NoResult
    /\ mood2 = NoResult
    /\ redetected = FALSE
    /\ requests = 0
    /\ entries = <<>>
    /\ moods = <<>>
    /\ prompts = [created |-> FALSE, rows |-> <<>>]
    /\ call = [op |-> "none"]

NextDatabase == InitDatabase \/ CreateEntry \/ UpdateEntry \/ DeleteEntry

SpecDatabase == InitFresh /\ [][NextDatabase]_vars

----------------------------------------------------------------------------

(* Properties.                                                             *)

Returned == pc \in {"validated", "revalidated"}

TextCounts == _count_emotion_matches(_tokenize(text))

Detected == _detect_emotion_from_text(text)

FuriousText == Plain(<<"I", "am", "furious", "and", "enraged">>)

\* C1: whatever the model call did, the result of validate_and_fix on the
\* analyzer's result has an emotion of the table, a score whose sign fits
\* the emotion's polarity (happy/calm >= 0, sad/anxious/angry <= 0) and
\* which lies inside the emotion's interval of EMOTION_SCORE_RANGES.
C1_SignAndRange ==
    pc = "validated" =>
      /\ mood.dominant_emotion \in DOMAIN EMOTION_SCORE_RANGES
      /\ mood.dominant_emotion \in positive_emotions => mood.mood_score >= 0
      /\ mood.dominant_emotion \in negative_emotions => mood.mood_score <= 0
      /\ mood.mood_score >= EMOTION_SCORE_RANGES[mood.dominant_emotion][1]
      /\ mood.mood_score <= EMOTION_SCORE_RANGES[mood.dominant_emotion][2]

\* C1 witness: the model answered calm with score -0.8 (self-contradictory);
\* the pre-pass flipped it to +0.8 and the validator brought it into calm's
\* range.
C1_Witness ==
    /\ pc = "validated"
    /\ outcome = [kind |-> "reply",
                  reply |-> [form |-> "object",
                             fields |-> Dict(<<JNum(-80000)>>, <<JStr("calm")>>,
                                             <<JNum(90000)>>, <<>>)]]
    /\ raw.mood_score = 80000
    /\ mood.dominant_emotion = "calm"
    /\ mood.mood_score = 60000

\* C2: validate_and_fix is idempotent: applied to its own result with the
\* same text it returns that result, in all four fields.
C2_Idempotent == pc = "revalidated" => mood2 = mood

\* C2 witness: a call that replaced the candidate's emotion by re-detection,
\* followed by the second call.
C2_Witness ==
    /\ pc = "revalidated"
    /\ redetected
    /\ "dominant_emotion" \in DOMAIN raw
    /\ mood.dominant_emotion # Lower(raw.dominant_emotion)

\* C3 (as claimed): analyze_entry never raises, whatever the HTTP call does.
C3_NeverRaises == pc # "raised"

\* C4 (as claimed): the emotion validate_and_fix returns has a keyword in
\* the text, or was produced by _detect_emotion_from_text during the call.
C4_EvidenceOrRedetected ==
    pc = "validated" =>
      \/ Get(TextCounts, mood.dominant_emotion, 0) > 0
      \/ redetected

\* C5 (as claimed): after a timeout or a transport error analyze_entry
\* returns the emotion, score and confidence of _detect_emotion_from_text.
C5_FallbackIsRedetector ==
    (pc \in {"analyzed", "validated"} /\ outcome.kind \in {"timeout", "request_error"}) =>
      /\ raw.dominant_emotion = Detected.emotion
      /\ raw.mood_score = Detected.score
      /\ raw.confidence = Detected.confidence

\* C6: for a candidate whose confidence is below 0.5 or absent,
\* validate_and_fix returns the emotion, score and confidence of
\* _detect_emotion_from_text(text) and the keywords of
\* _extract_quality_keywords(text, that emotion).
C6_LowConfidenceReplaced ==
    (Returned /\ Get(raw, "confidence", 0) < 50000) =>
      /\ mood.dominant_emotion = Detected.emotion
      /\ mood.mood_score = Detected.score
      /\ mood.confidence = Detected.confidence
      /\ mood.keywords = _extract_quality_keywords(text, Detected.emotion)

\* C6 witness: a candidate (happy, confidence 0.3) on a text whose only
\* evidence is angry, returned as angry.
C6_Witness ==
    /\ pc = "validated"
    /\ Get(raw, "confidence", 0) = 30000
    /\ Get(raw, "dominant_emotion", "") = "happy"
    /\ mood.dominant_emotion = "angry"

\* C7: when the emotion reaching CHECK 5 has no keyword in the text and some
\* non-neutral emotion has one, the returned emotion, score and confidence
\* are those of _detect_emotion_from_text(text); candidate (calm, -0.8, 0.9)
\* on "I am furious and enraged" becomes angry with a score in [-0.9, -0.3].
C7_EvidenceOverride ==
    pc = "validated" =>
      /\ (/\ Get(TextCounts, BeforeCheck5(raw, text).emotion, 0) = 0
          /\ \E e \in Range(PrimaryOrder) : TextCounts[e] > 0)
         => /\ mood.dominant_emotion = Detected.emotion
            /\ mood.mood_score = Detected.score
            /\ mood.confidence = Detected.confidence
      /\ (text = FuriousText /\ raw = Dict(<<-80000>>, <<"calm">>, <<90000>>, <<>>))
         => /\ mood.dominant_emotion = "angry"
            /\ mood.mood_score >= -90000
            /\ mood.mood_score <= -30000

\* C7 witness: the candidate (calm, -0.8, 0.9) on "I am furious and
\* enraged", returned as angry.
C7_Witness ==
    /\ pc = "validated"
    /\ text = FuriousText
    /\ raw = Dict(<<-80000>>, <<"calm">>, <<90000>>, <<>>)
    /\ mood.dominant_emotion = "angry"
    /\ mood.mood_score = -78000

\* The data-model invariants of a candidate for the text: emotion in the
\* closed set, score sign-consistent and inside the emotion's range,
\* confidence in [0, 1], emotion with keyword evidence, keywords unique,
\* at most 5, non-empty and free of stop-words.
ValidCandidate ==
    /\ DOMAIN raw = {"mood_score", "dominant_emotion", "confidence", "keywords"}
    /\ raw.dominant_emotion \in valid_emotions
    /\ raw.mood_score >= EMOTION_SCORE_RANGES[raw.dominant_emotion][1]
    /\ raw.mood_score <= EMOTION_SCORE_RANGES[raw.dominant_emotion][2]
    /\ raw.confidence >= 0 /\ raw.confidence <= 100000
    /\ TextCounts[raw.dominant_emotion] > 0
    /\ raw.keywords # <<>>
    /\ Len(raw.keywords) <= 5
    /\ Cardinality(Range(raw.keywords)) = Len(raw.keywords)
    /\ Range(raw.keywords) \cap stop_words = {}

\* C8 (as claimed): validate_and_fix returns a candidate that already
\* satisfies every data-model invariant with all four fields unchanged.
C8_ValidIsNoOp == (pc = "validated" /\ ValidCandidate) => mood = raw

\* C8 (amended): for a candidate that satisfies every data-model invariant,
\* has confidence at least 0.5 and a score and confidence of at most four
\* decimals, validate_and_fix returns the emotion, score and confidence
\* unchanged, and as keywords _extract_quality_keywords(text, emotion).
C8_ValidKeepsValues ==
    (/\ pc = "validated"
     /\ ValidCandidate
     /\ raw.confidence >= 50000
     /\ raw.mood_score % 10 = 0
     /\ raw.confidence % 10 = 0)
    => /\ mood.dominant_emotion = raw.dominant_emotion
       /\ mood.mood_score = raw.mood_score
       /\ mood.confidence = raw.confidence
       /\ mood.keywords = _extract_quality_keywords(text, raw.dominant_emotion)

\* C8 witness: a valid neutral candidate (0.12, confidence 0.9) on a text
\* that also holds a happy keyword, returned with its values.
C8_Witness ==
    /\ pc = "validated"
    /\ ValidCandidate
    /\ raw.dominant_emotion = "neutral"
    /\ raw.confidence = 90000
    /\ raw.mood_score = 12000
    /\ TextCounts["happy"] > 0
    /\ mood.dominant_emotion = "neutral"

\* A keyword list with at most 5 entries, no duplicates, not empty.
WellFormedKeywords(k) ==
    /\ k # <<>>
    /\ Len(k) <= 5
    /\ Cardinality(Range(k)) = Len(k)

\* C9 (as claimed): the keyword lists returned by validate_and_fix and by
\* the analyzer's rule-based fallback have at most 5 entries, no duplicates,
\* and are never empty.
C9_KeywordLists ==
    /\ pc = "validated" => WellFormedKeywords(mood.keywords)
    /\ (pc \in {"analyzed", "validated"} /\ outcome.kind \in FailureKinds)
         => WellFormedKeywords(raw.keywords)

\* C10 (as claimed): the keyword list of validate_and_fix holds no word of
\* the stop-word list.
C10_NoStopWords ==
    pc = "validated" => Range(mood.keywords) \cap stop_words = {}

\* C11 (as claimed): for any candidate, also one with an emotion outside
\* the closed set, a confidence above 1 or a score outside [-1, 1],
\* validate_and_fix returns an emotion of the closed set, a score inside
\* that emotion's range and a confidence in [0, 1].
C11_AnyCandidateMadeValid ==
    pc = "validated" =>
      /\ mood.dominant_emotion \in valid_emotions
      /\ mood.mood_score >= EMOTION_SCORE_RANGES[mood.dominant_emotion][1]
      /\ mood.mood_score <= EMOTION_SCORE_RANGES[mood.dominant_emotion][2]
      /\ mood.confidence >= 0
      /\ mood.confidence <= 100000

\* C12: analyze_entry on a text without any word (empty or blank) returns
\* normally the neutral sentinel (neutral, 0.0, 0.5, ["entry"]) and sends
\* no request to the model service.
C12_EmptyTextNoRequest ==
    (text = <<>> /\ pc # "start") =>
      /\ pc # "raised"
      /\ raw.dominant_emotion = "neutral"
      /\ raw.mood_score = 0
      /\ raw.confidence = 50000
      /\ raw.keywords = <<"entry">>
      /\ requests = 0
      /\ outcome.kind = "no_request"

\* C12 witness: analyze_entry has returned for the empty text.
C12_Witness ==
    /\ text = <<>>
    /\ pc = "analyzed"
    /\ raw.dominant_emotion = "neutral"
    /\ requests = 0

TokenSet == Range(_tokenize(text))

Matched(e) == Range(EMOTION_KEYWORDS[e]) \cap TokenSet

WorriedText == Plain(<<"worried", "and", "stressed", "out">>)

SixHappyText ==
    Plain(<<"happy", "joyful", "excited", "proud", "wonderful", "amazing">>)

C18_TieBreakOrder ==
    pc = "classified" =>
      LET order == <<"happy", "sad", "anxious", "calm", "angry">>
          n(e) == Cardinality(Matched(e))
          top == CHOOSE m \in 0..200 :
                   /\ \E i \in 1..5 : n(order[i]) = m
                   /\ \A i \in 1..5 : n(order[i]) <= m
      IN  /\ top > 0 =>
                \E i \in 1..5 :
                   /\ mood.dominant_emotion = order[i]
                   /\ n(order[i]) = top
                   /\ \A j \in 1..(i - 1) : n(order[j]) < top
          /\ top = 0 => mood.dominant_emotion = "neutral"
          /\ text = <<<<"content">>>> => mood.dominant_emotion = "happy"

\* C18 witness: one keyword each of angry, anxious and sad, written in that
\* order, classified sad.
C18_Witness ==
    /\ pc = "classified"
    /\ text = Plain(<<"angry", "worried", "sad">>)
    /\ raw["sad"] = 1 /\ raw["anxious"] = 1 /\ raw["angry"] = 1
    /\ mood.dominant_emotion = "sad"

\* C19: the match count of an emotion is the number of distinct keywords of
\* its lexicon that are whole tokens of the text: a repeated keyword counts
\* once and a token that only contains a keyword ("happiness") counts zero.
C19_WholeTokenSetCount ==
    pc = "classified" =>
      /\ \A e \in DOMAIN EMOTION_KEYWORDS : raw[e] = Cardinality(Matched(e))
      /\ text = Plain(<<"happy", "happy">>) => raw["happy"] = 1
      /\ text = Plain(<<"happiness">>) =>
            /\ raw["happy"] = 0
            /\ mood.dominant_emotion = "neutral"
      /\ text = Plain(<<"I", "feel", "happy", "today">>) =>
            /\ raw["happy"] = 1
            /\ mood.dominant_emotion = "happy"

\* C19 witness: the keyword written twice, once capitalised inside
\* brackets, counted once.
C19_Witness ==
    /\ pc = "classified"
    /\ text = <<<<"happy">>, <<"(", "Happy", ")">>>>
    /\ raw["happy"] = 1
    /\ mood.confidence = 63000

\* No non-neutral emotion has a keyword in the text.
NoPrimaryMatch == \A e \in Range(PrimaryOrder) : Matched(e) = {}

\* C20 (as claimed): a text without a match in any non-neutral bucket is
\* classified neutral, 0.0, 0.5 with the keywords ["journal", "entry"].
C20_NeutralWithFallbackKeywords ==
    (pc = "classified" /\ NoPrimaryMatch) =>
      /\ mood.dominant_emotion = "neutral"
      /\ mood.mood_score = 0
      /\ mood.confidence = 50000
      /\ mood.keywords = <<"journal", "entry">>

\* C20 (amended): such a text is classified neutral, 0.0, 0.5; its keywords
\* are ["journal", "entry"] exactly when it has no neutral keyword and no
\* alphabetic token longer than 4 characters outside the stop-word list,
\* and otherwise they are taken from those tokens.
C20_NeutralWhenNoMatch ==
    (pc = "classified" /\ NoPrimaryMatch) =>
      LET usable == {t \in TokenSet :
                       \/ t \in Range(EMOTION_KEYWORDS["neutral"])
                       \/ (Len(t) > 4 /\ IsAlpha(t) /\ t \notin stop_words)}
      IN  /\ mood.dominant_emotion = "neutral"
          /\ mood.mood_score = 0
          /\ mood.confidence = 50000
          /\ usable = {} => mood.keywords = <<"journal", "entry">>
          /\ usable # {} => /\ Range(mood.keywords) \subseteq usable
                            /\ mood.keywords # <<>>

\* C20 witness: "regular uneventful day", neutral with the keywords
\* regular and uneventful.
C20_Witness ==
    /\ pc = "classified"
    /\ text = Plain(<<"regular", "uneventful", "day">>)
    /\ NoPrimaryMatch
    /\ mood.dominant_emotion = "neutral"
    /\ mood.keywords = <<"regular", "uneventful">>

\* C14 (as claimed): unless the database fails, create_entry with content
\* that is not blank commits the entry with a mood record and reports
\* success, whatever the model service does.
C14_CreateAlwaysCommits ==
    (call.op = "create" /\ text # <<>> /\ pc # "db_error") =>
      /\ pc = "committed"
      /\ call.entry_id \in DOMAIN entries
      /\ RowsOf(moods, call.entry_id) # {}

\* Every stored entry has exactly one mood row and every mood row belongs
\* to a stored entry.
OneMoodPerEntry ==
    /\ \A id \in DOMAIN entries : Cardinality(RowsOf(moods, id)) = 1
    /\ \A k \in DOMAIN moods : moods[k].entry_id \in DOMAIN entries

\* The mood row of an entry in a table.
RowOf(ms, id) == ms[CHOOSE k \in RowsOf(ms, id) : TRUE]

\* A step leaves to every stored entry one mood row: for the entry a
\* successful create or update wrote, the row holds the four fields of the
\* analysis that call ran on the new content; for every other entry, row
\* and content are what they were.
WriteReplaces ==
    \A id \in DOMAIN entries' :
      /\ Cardinality(RowsOf(moods', id)) = 1
      /\ IF pc' = "committed" /\ call'.entry_id = id
         THEN /\ entries'[id].content = text'
              /\ RowOf(moods', id).mood_score = mood'.mood_score
              /\ RowOf(moods', id).dominant_emotion = mood'.dominant_emotion
              /\ RowOf(moods', id).confidence = mood'.confidence
              /\ SplitKeywords(RowOf(moods', id).keywords) = mood'.keywords
         ELSE /\ id \in DOMAIN entries
              /\ Cardinality(RowsOf(moods, id)) = 1
              /\ entries'[id] = entries[id]
              /\ RowOf(moods', id) = RowOf(moods, id)

\* C15: after any sequence of create_entry, update_entry and delete_entry
\* calls, failed ones included, every stored entry has exactly one mood
\* record, every mood record belongs to a stored entry, and the record
\* holds score, emotion, confidence and keywords of the analysis run by the
\* latest successful write of the entry, nothing of an earlier analysis.
C15_OneCurrentMoodPerEntry == []OneMoodPerEntry /\ [][WriteReplaces]_vars

\* C15 witness: two entries stored, the first one edited to the furious
\* text; its row, still the first of the table, is now angry.
C15_Witness ==
    /\ call = [op |-> "update", entry_id |-> 1]
    /\ pc = "committed"
    /\ text = FuriousText
    /\ DOMAIN entries = {1, 2}
    /\ Len(moods) = 2
    /\ moods[1].entry_id = 1
    /\ moods[1].dominant_emotion = "angry"
    /\ SplitKeywords(moods[1].keywords) = mood.keywords

\* C16: whatever the model replies, the values create_entry and
\* update_entry write to the mood record satisfy the CHECK constraints
\* (score in [-1, 1], confidence in [0, 1], emotion one of the six labels),
\* so no commit fails on values produced by the model.
C16_StoredValuesPassChecks ==
    /\ pc # "integrity_error"
    /\ \A k \in DOMAIN moods : CheckConstraints(moods[k])

\* C16 witness: the model replied score 2.5, emotion "excited", confidence
\* 1.5 and the entry was committed as neutral with confidence 1.0.
C16_Witness ==
    /\ call.op = "create"
    /\ pc = "committed"
    /\ outcome = [kind |-> "reply",
                  reply |-> [form |-> "object",
                             fields |-> Dict(<<JNum(250000)>>, <<JStr("excited")>>,
                                             <<JNum(150000)>>, <<>>)]]
    /\ RowOf(moods, call.entry_id).dominant_emotion = "neutral"
    /\ RowOf(moods, call.entry_id).confidence = 100000

\* The call that just ended was refused for its input: create_entry with
\* blank content, update_entry with an id that is not stored or with blank
\* content, delete_entry with an id that is not stored.
RefusedCall ==
    \/ call'.op = "create" /\ text' = <<>>
    \/ call'.op = "update" /\ (call'.entry_id \notin DOMAIN entries \/ text' = <<>>)
    \/ call'.op = "delete" /\ call'.entry_id \notin DOMAIN entries

\* C21: create_entry with blank content, update_entry with an unknown id or
\* blank content and delete_entry with an unknown id report failure, send no
\* request to the model service and leave both tables as they were.
C21_RefusedCallsChangeNothing ==
    [][RefusedCall =>
         /\ pc' \in {"rejected", "not_found", "db_error"}
         /\ requests' = 0
         /\ outcome'.kind = "no_request"
         /\ raw' = NoResult
         /\ entries' = entries
         /\ moods' = moods]_vars

\* C21 witness: update_entry with blank content on a stored entry whose
\* mood row is angry was refused; entry and row are still there.
C21_Witness ==
    /\ call = [op |-> "update", entry_id |-> 1]
    /\ pc = "rejected"
    /\ text = <<>>
    /\ requests = 0
    /\ 1 \in DOMAIN entries
    /\ entries[1].content = FuriousText
    /\ RowOf(moods, 1).dominant_emotion = "angry"

OwnMood(id) ==
    /\ Cardinality(RowsOf(moods, id)) = 1
    /\ \E r \in JournalRuns :
         /\ r.content = entries[id].content
         /\ ~r.run.raised
         /\ RowOf(moods, id) = MoodRow(id, r.run.mood_data)

\* C23 (as claimed): however two create_entry / update_entry calls that
\* share one JournalManager interleave, every stored entry has the mood
\* record derived from its own text; nothing of the other call's analysis
\* ends up in it.
C23_InterleavedCallsKeepOwnMood == \A id \in DOMAIN entries : OwnMood(id)

\* The result _parse_model_json hands to the consistency pre-pass.
Parsed == _parse_model_json(outcome.reply).result

AfterCheck1 == Check1(ReadCandidate(raw), text)

\* The condition of CHECK 3 on the values after CHECK 1.
NeutralExtreme == AfterCheck1.emotion = "neutral" /\ Abs(AfterCheck1.score) > 25000

\* The condition of CHECK 2 (either sign flip) on the values after CHECK 1.
SignMismatch ==
    \/ AfterCheck1.emotion \in {"happy", "calm"} /\ AfterCheck1.score < 0
    \/ AfterCheck1.emotion \in {"sad", "anxious", "angry"} /\ AfterCheck1.score > 0

\* C25: in validate_and_fix the neutral-with-extreme-score rule fires
\* exactly when, after CHECK 1, the emotion is neutral and |score| > 0.25,
\* never together with a sign flip; when it fires the returned emotion,
\* score and confidence are those of _detect_emotion_from_text(text), the
\* range clamp and the evidence check leaving them as they are; when it
\* does not fire and neither CHECK 1 nor CHECK 5 re-detects, the emotion
\* and the confidence after CHECK 1 are returned.
C25_NeutralExtremeRedetects ==
    pc = "validated" =>
      /\ ~(NeutralExtreme /\ SignMismatch)
      /\ NeutralExtreme =>
            /\ redetected
            /\ Check2and3(AfterCheck1, text) = Redetect(text)
            /\ mood.dominant_emotion = Detected.emotion
            /\ mood.mood_score = Detected.score
            /\ mood.confidence = Detected.confidence
      /\ SignMismatch =>
            /\ Check2and3(AfterCheck1, text).emotion = AfterCheck1.emotion
            /\ Check2and3(AfterCheck1, text).score = -AfterCheck1.score
      /\ ~NeutralExtreme =>
            /\ Check2and3(AfterCheck1, text).redetected = AfterCheck1.redetected
            /\ ~redetected => /\ mood.dominant_emotion = AfterCheck1.emotion
                              /\ mood.confidence = RoundTo(AfterCheck1.confidence, 10)

\* C25 witness: the candidate (neutral, 0.33337, confidence 0.87654) on
\* "I am furious and enraged", returned as angry, -0.78, 0.63.
C25_Witness ==
    /\ pc = "validated"
    /\ text = FuriousText
    /\ raw = Dict(<<33337>>, <<"neutral">>, <<87654>>, <<>>)
    /\ NeutralExtreme
    /\ mood.dominant_emotion = "angry"
    /\ mood.mood_score = -78000
    /\ mood.confidence = 63000

\* What the classifier returns for every text: the dominant emotion, its
\* match count and the score.
ClassifiedTexts ==
    {[emotion |-> _detect_emotion_from_text(t).emotion,
      matches |-> Get(_count_emotion_matches(_tokenize(t)),
                      _detect_emotion_from_text(t).emotion, 0),
      score |-> _detect_emotion_from_text(t).score] : t \in Texts}

\* C26 (as claimed): for a fixed dominant emotion the magnitude of the
\* classifier's score does not decrease when the match count grows, for
\* positive-class and negative-class emotions alike.
C26_MoreMatchesStrongerScore ==
    (pc = "classified" /\ mood.dominant_emotion # "neutral") =>
      \A c \in ClassifiedTexts :
         (c.emotion = mood.dominant_emotion /\ c.matches >= raw[mood.dominant_emotion])
           => Abs(c.score) >= Abs(mood.mood_score)

\* The reply of the model is the object with this score and emotion (and
\* confidence 0.9, no keywords).
ModelReplied(score, emotion) ==
    /\ pc \in {"analyzed", "validated"}
    /\ outcome = [kind |-> "reply",
                  reply |-> [form |-> "object",
                             fields |-> Dict(<<JNum(score)>>, <<JStr(emotion)>>,
                                             <<JNum(90000)>>, <<>>)]]

\* C27 (as claimed): the pre-pass corrects (calm, -0.8) to score +0.4 and
\* (happy, -0.5) to score +0.5, as its docstring says.
C27_DocstringExamples ==
    /\ ModelReplied(-80000, "calm") =>
          raw.dominant_emotion = "calm" /\ raw.mood_score = 40000
    /\ ModelReplied(-50000, "happy") =>
          raw.dominant_emotion = "happy" /\ raw.mood_score = 50000

\* reflection_prompts holds the ten default prompts, each once, or (before
\* the first init_database call that succeeds) nothing.
SeededOnceOrEmpty ==
    /\ prompts.rows \in {<<>>, sample_prompts}
    /\ Len(sample_prompts) = 10
    /\ Cardinality(Range(sample_prompts)) = 10
    /\ pc = "initialized" => prompts.created /\ prompts.rows = sample_prompts

\* No step changes a table of prompts that is not empty, and only an
\* init_database call that found the table empty inserts.
SeedOnlyWhenEmpty ==
    /\ prompts.rows # <<>> => prompts'.rows = prompts.rows
    /\ (call'.op = "init_database" /\ call'.seeded) => prompts.rows = <<>>
    /\ call'.op # "init_database" => prompts' = prompts

\* C28: after any number of init_database calls, with journal operations
\* on sessions of get_session in between, reflection_prompts holds exactly
\* the 10 default prompts, once each, as soon as one call has succeeded; a
\* call that finds a prompt present inserts nothing.
C28_SeedIdempotent == []SeededOnceOrEmpty /\ [][SeedOnlyWhenEmpty]_vars

\* C28 witness: init_database has succeeded a second time, after an entry
\* was stored, without inserting; the ten prompts are there once.
C28_Witness ==
    /\ call = [op |-> "init_database", seeded |-> FALSE]
    /\ pc = "initialized"
    /\ DOMAIN entries = {1}
    /\ prompts.rows = sample_prompts
    /\ Len(prompts.rows) = 10

\* The candidate is neutral with confidence at least 0.5 and |score| at
\* most 0.25.
CalmNeutralCandidate ==
    /\ Lower(Get(raw, "dominant_emotion", "neutral")) = "neutral"
    /\ Get(raw, "confidence", 0) >= 50000
    /\ Abs(Get(raw, "mood_score", 0)) <= 25000

\* C29: a neutral candidate with confidence >= 0.5 and |score| <= 0.25 is
\* returned neutral whenever a token of the text is a word of the neutral
\* lexicon, however many keywords of other emotions the text holds; such a
\* candidate is turned into a non-neutral emotion only on a text without a
\* neutral-lexicon token, and then into the re-detected one.
C29_NeutralEvidenceProtects ==
    (pc = "validated" /\ CalmNeutralCandidate) =>
      /\ Matched("neutral") # {} =>
            /\ mood.dominant_emotion = "neutral"
            /\ mood.confidence = RoundTo(raw.confidence, 10)
            /\ ~redetected
      /\ mood.dominant_emotion # "neutral" =>
            /\ Matched("neutral") = {}
            /\ redetected
            /\ mood.dominant_emotion = Detected.emotion
      /\ (Matched("neutral") = {} /\ ~NoPrimaryMatch) =>
            mood.dominant_emotion = Detected.emotion

\* C29 witness: the candidate (neutral, 0.12, 0.9) on "okay but furious
\* angry mad", three angry keywords next to one neutral one, returned
\* neutral.
C29_Witness ==
    /\ pc = "validated"
    /\ text = Plain(<<"okay", "but", "furious", "angry", "mad">>)
    /\ raw = Dict(<<12000>>, <<"neutral">>, <<90000>>, <<>>)
    /\ TextCounts["angry"] = 3
    /\ TextCounts["neutral"] = 1
    /\ mood.dominant_emotion = "neutral"
    /\ mood.mood_score = 12000

\* C30: the confidence returned by validate_and_fix(analyze_entry(text), text)
\* lies in [0.5, 1.0] for every text and every outcome of the model call:
\* analyze_entry hands over a confidence in [0, 1], a confidence below 0.5 is
\* replaced by that of _detect_emotion_from_text(text), which is at least
\* 0.5, and after CHECK 1 every check leaves the confidence in [0.5, 1.0].
C30_ConfidenceInRange ==
    pc = "validated" =>
      LET s1 == Check1(ReadCandidate(raw), text)
          s3 == Check2and3(s1, text)
          s4 == Check4(s3)
          s5 == Check5(s4, text)
      IN  /\ mood.confidence \in 50000..100000
          /\ raw.confidence \in 0..100000
          /\ raw.confidence < 50000 =>
               /\ redetected
               /\ mood.confidence = Detected.confidence
               /\ Detected.confidence >= 50000
          /\ \A st \in {s1, s3, s4, s5} : st.confidence \in 50000..100000

\* C30 witness: the model answers with confidence 0.3 for "I am furious and
\* enraged" and the result carries the re-detected confidence, above 0.5.
C30_Witness ==
    /\ pc = "validated"
    /\ text = FuriousText
    /\ outcome.kind = "reply"
    /\ raw.confidence = 30000
    /\ mood.dominant_emotion = "angry"
    /\ mood.confidence = Detected.confidence
    /\ mood.confidence > 50000

====
